---- MODULE Spec2Model ----
(***************************************************************************)
(* Verification model of the JoshGPT tool-calling orchestration loop       *)
(* (src/src/chat-runner.js, runChatWithOptionalMcp) and of the pure        *)
(* helpers it relies on.                                                   *)
(*                                                                         *)
(* One behaviour of Spec is one user turn.  The loop is single threaded;   *)
(* pc is its position, and every value of pc other than "init", "setup",   *)
(* "toolLoop", "done" and "thrown" is a suspension at an await, left by    *)
(* the action that models the awaited call resolving or rejecting.         *)
(*                                                                         *)
(* JavaScript numbers that may be fractional (the configured round limit   *)
(* and what is computed from it) are fixed-point integers with             *)
(* denominator Denom.                                                      *)
(***************************************************************************)
EXTENDS Integers, Sequences, FiniteSets, TLC

----------------------------------------------------------------------------
(* Bounds of the model *)

MaxListing == 2    \* descriptors in one tools/list reply
MaxToolCalls == 2  \* entries of tool_calls in one completion response
MaxTurnCalls == 4  \* entries of tool_calls over one turn
MaxCalls == 2      \* listTools / callTool calls on one protocol client
TimeoutTicks == 2  \* this.timeoutMs of the protocol client, in clock ticks
MaxChunks == 2     \* output chunks of one local command
MaxRequests == 2   \* network requests of one prompt

(* Program constants *)

Denom == 2
DefaultMaxRounds == 4
LOCAL_SHELL_TOOL_NAME == "run_local_shell_command"
MCP_EXECUTION_TOOL_NAMES == {"run_host_command", "run_container_command"}

AdvisoryText ==
  "Reached tool-call round limit before final response. Increase joshgpt.mcp.maxToolRounds if needed."

SeqsUpTo(S, n) == UNION {[1..k -> S] : k \in 0..n}

InSeq(x, s) == \E i \in 1..Len(s) : s[i] = x

----------------------------------------------------------------------------
(* Inputs *)

\* config.mcpMaxToolRounds: NaN, 0 and 1.5.
MaxRoundsChoices ==
  { [finite |-> FALSE, value |-> 0],
    [finite |-> TRUE, value |-> 0],
    [finite |-> TRUE, value |-> Denom + 1] }

Configs ==
  [ chatEndpointMode : {"openai-compat", "lmstudio-native-stream"},
    mcpEnabled : BOOLEAN,
    localShellEnabled : BOOLEAN,
    mcpMaxToolRounds : MaxRoundsChoices ]

\* The caller's message list: the stored session behind a system prompt.
InputMessages ==
  { << [role |-> "system", content |-> "system prompt"],
       [role |-> "user", content |-> "prompt"] >> }

\* Descriptors a gateway may list; "" stands for a missing (falsy) field.
ToolDescriptors ==
  { [name |-> "list_files", description |-> "List files", inputSchema |-> "schema:list_files"],
    [name |-> "read_file", description |-> "", inputSchema |-> "schema:read_file"],
    [name |-> "run_host_command", description |-> "Run on host", inputSchema |-> "schema:run_host_command"],
    [name |-> "run_container_command", description |-> "Run in container", inputSchema |-> "schema:run_container_command"],
    [name |-> "", description |-> "nameless", inputSchema |-> "schema:nameless"],
    [name |-> "search", description |-> "Search", inputSchema |-> ""] }

\* tools/list replies: a name is listed at most once.
Listings ==
  { l \in SeqsUpTo(ToolDescriptors, MaxListing) :
      \A i, j \in 1..Len(l) : l[i].name = l[j].name => i = j }

\* Raw argument payloads of a tool call.
ArgsPwd == [typeof |-> "string", text |-> "{\"command\":\"pwd\"}"]
ArgsPath == [typeof |-> "string", text |-> "{\"path\":\".\"}"]
ArgsUndefined == [typeof |-> "undefined", text |-> ""]
ArgsArray == [typeof |-> "string", text |-> "[1,2]"]

\* Entries of a response's tool_calls array; null marks a null entry.
NullToolCall ==
  [null |-> TRUE, id |-> "", function |-> [name |-> "", arguments |-> ArgsUndefined]]

\* call_3 carries a JSON array, which has no "command" member.
ToolCallEntries ==
  { NullToolCall,
    [null |-> FALSE, id |-> "call_1",
     function |-> [name |-> "list_files", arguments |-> ArgsPath]],
    [null |-> FALSE, id |-> "call_2",
     function |-> [name |-> LOCAL_SHELL_TOOL_NAME, arguments |-> ArgsPwd]],
    [null |-> FALSE, id |-> "call_3",
     function |-> [name |-> LOCAL_SHELL_TOOL_NAME, arguments |-> ArgsArray]] }

\* message.content of a completion response; "" stands for null.
Contents == {"The answer.", ""}

RawDump == "{\"choices\":[...]}"

----------------------------------------------------------------------------
(* Pure helpers of chat-runner.js *)

\* JSON.parse over the payloads above: ok = it did not throw.
JSONParse(text) ==
  CASE text = "{\"command\":\"pwd\"}" ->
         [ok |-> TRUE, kind |-> "object", members |-> {<<"command", "pwd">>}]
    [] text = "{\"path\":\".\"}" ->
         [ok |-> TRUE, kind |-> "object", members |-> {<<"path", ".">>}]
    [] text = "{}" ->
         [ok |-> TRUE, kind |-> "object", members |-> {}]
    [] text = "[1,2]" ->
         [ok |-> TRUE, kind |-> "array", members |-> {<<"0", "1">>, <<"1", "2">>}]
    [] text = "5" ->
         [ok |-> TRUE, kind |-> "number", members |-> {}]
    [] OTHER ->
         [ok |-> FALSE, kind |-> "undefined", members |-> {}]

EmptyObject == [kind |-> "object", members |-> {}]

\* Property read on a parsed value: "" when the key is absent.
Member(obj, key) ==
  IF \E m \in obj.members : m[1] = key
    THEN (CHOOSE m \in obj.members : m[1] = key)[2]
    ELSE ""

\* String.prototype.trim over the texts of the model.
Trim(text) ==
  CASE text = "   " -> ""
    [] text = " ls " -> "ls"
    [] text = "  src " -> "src"
    [] OTHER -> text

parseToolArguments(raw) ==
  IF raw.typeof # "string" \/ Trim(raw.text) = ""
    THEN EmptyObject
    ELSE LET parsed == JSONParse(raw.text)
         IN  IF parsed.ok /\ parsed.kind \in {"object", "array"}
               THEN [kind |-> parsed.kind, members |-> parsed.members]
               ELSE EmptyObject

AdaptTool(tool) ==
  [ type |-> "function",
    function |-> [ name |-> tool.name,
                   description |-> tool.description,
                   parameters |-> tool.inputSchema ] ]

\* Variant of asOpenAiTools: the exclusion set is not applied.
asOpenAiToolsUnfiltered(mcpToolList, excludedToolNames) ==
  LET HasNameAndSchema(tool) == tool.name # "" /\ tool.inputSchema # ""
      kept == SelectSeq(mcpToolList, HasNameAndSchema)
  IN  [i \in 1..Len(kept) |-> AdaptTool(kept[i])]

asOpenAiTools(mcpToolList, excludedToolNames) ==
  LET HasNameAndSchema(tool) == tool.name # "" /\ tool.inputSchema # ""
      NotExcluded(tool) == tool.name \notin excludedToolNames
      kept == SelectSeq(SelectSeq(mcpToolList, HasNameAndSchema), NotExcluded)
  IN  [i \in 1..Len(kept) |-> AdaptTool(kept[i])]

\* Variant of countToolCalls: an empty list is counted as one call.
countToolCallsNeverZero(resp) ==
  IF Len(resp.toolCalls) = 0 THEN 1 ELSE Len(resp.toolCalls)

countToolCalls(resp) == Len(resp.toolCalls)

getLocalShellOpenAiTool ==
  [ type |-> "function",
    function |-> [ name |-> LOCAL_SHELL_TOOL_NAME,
                   description |-> "Run a shell command in the current extension host environment.",
                   parameters |-> "schema:run_local_shell_command" ] ]

ToolNames(tools) == [i \in 1..Len(tools) |-> tools[i].function.name]

\* The completion client's result for a reply whose message carries content c
\* and tool_calls tcs.
ChatResponse(c, tcs) ==
  [ message |-> [content |-> c],
    toolCalls |-> tcs,
    text |-> IF c # "" THEN c ELSE RawDump ]

\* Replies of the completion endpoint: a final answer with or without text,
\* or tool calls without text.
Responses ==
  {ChatResponse(c, <<>>) : c \in Contents}
    \cup {ChatResponse("", tcs) : tcs \in SeqsUpTo(ToolCallEntries, MaxToolCalls) \ {<<>>}}

Ev(type, summary) == [type |-> type, summary |-> summary]

----------------------------------------------------------------------------
(* State of one turn *)

VARIABLES
  config,           \* the configuration struct handed to runChatWithOptionalMcp
  messages,         \* the caller's message list
  pc,               \* position of the loop
  trace,            \* TraceEvent sequence of the turn
  mcpClient,        \* "null" or "client"
  listOutcome,      \* "none", "pending", "returned" or "threw": await listTools()
  mcpTools,         \* the tools/list reply while it is in scope
  openAiTools,      \* tool schemas exposed to the model
  mcpEnabled,       \* remote tooling enabled for this turn
  workingMessages,  \* the working conversation
  maxRounds,        \* round budget, fixed point
  round,            \* loop index
  request,          \* payload of the last chat-completions request
  requests,         \* chat-completions requests sent so far
  response,         \* the completion response being processed
  toolIdx,          \* index in response.toolCalls of the tool call in hand
  toolOutcome,      \* "none", "pending", "resolved" or "rejected": the awaited execution
  usedToolsInTurn,
  result,           \* the value the turn returned (meaningful when pc = "done")
  thrown            \* the error the turn threw (meaningful when pc = "thrown")

turnVars ==
  << config, messages, pc, trace, mcpClient, listOutcome, mcpTools, openAiTools,
     mcpEnabled, workingMessages, maxRounds, round, request, requests, response,
     toolIdx, toolOutcome, usedToolsInTurn, result, thrown >>

(* State of one McpHttpClient instance and of the call in progress on it *)

VARIABLES
  baseUrl,          \* this.baseUrl
  sessionId,        \* this.sessionId, "" while none is held
  initialized,      \* this.initialized
  callCount,        \* listTools / callTool calls made on the instance so far
  operation,        \* "none", "listTools" or "callTool": the call in progress or last made
  clientPc,         \* "idle", "fetch" (await fetch) or "body" (await response.text())
  method,           \* JSON-RPC method of the request in flight
  sent,             \* requests handed to fetch so far: method and Mcp-Session-Id header
  timerArmed,       \* the abort timer of the request in flight is pending
  elapsed,          \* clock ticks since the request in flight was handed to fetch
  httpResponse,     \* the response whose body is awaited
  lastPost,         \* the last _post that ended in the current call: its method, the
                    \* response and body it read, the error it threw ("" if it returned)
  callOutcome,      \* "none", "pending", "returned" or "threw"
  callError         \* the error the last call threw

clientVars ==
  << baseUrl, sessionId, initialized, callCount, operation, clientPc, method, sent,
     timerArmed, elapsed, httpResponse, lastPost, callOutcome, callError >>

(* State of one call of the local command executor *)

VARIABLES
  input,            \* the tool input: command and cwd
  workspaceRoot,    \* options.workspaceRoot
  mirror,           \* options.mirror: "none", "listening" or "throwing"
  shellPc,          \* "idle", "running", "resolved" or "rejected"
  child,            \* the subprocess: its state, child.killed, how it behaves and how it ended
  spawnCount,       \* subprocesses spawned
  signals,          \* signals delivered to the subprocess
  timedOut,
  timeoutHandle,    \* "none", "pending", "fired" or "cleared"
  graceHandle,      \* "none", "pending" or "fired": the timer before SIGKILL
  spawnError,       \* the "error" event has been seen
  chunks,           \* the output chunks received: stream and text
  stdoutState,      \* text and truncated flag collected from stdout
  stderrState,      \* text and truncated flag collected from stderr
  mirrorCalls,      \* observer methods called so far
  shellResult,      \* what the promise resolved with
  shellError        \* what the promise rejected with

shellVars ==
  << input, workspaceRoot, mirror, shellPc, child, spawnCount, signals, timedOut,
     timeoutHandle, graceHandle, spawnError, chunks, stdoutState, stderrState,
     mirrorCalls, shellResult, shellError >>

(* State of one application of a pure helper of the executor *)

VARIABLES
  helperPc,         \* "idle", "bounded", "truncateText", "returned" or "reapplied"
  limitsIn,         \* the requested and the configured timeout and output cap
  limitsOut,        \* timeoutSeconds and maxOutputChars as computed
  truncIn,          \* value and maxChars handed to truncateText
  truncOut          \* what truncateText returned, one entry per application

helperVars == << helperPc, limitsIn, limitsOut, truncIn, truncOut >>

(* State of one prompt, from the session view or from the Ask Model command *)

VARIABLES
  entry,            \* "view" (_sendPrompt) or "command" (askModel)
  settings,         \* the joshgpt.* settings as stored
  promptPc,         \* "idle", "running", "answered", "failed" or "cancelled"
  busy,             \* this.busy of the session view
  network,          \* requests sent for the prompt
  sessionLog,       \* roles of the messages appended to the session
  promptError       \* message of the error shown to the user

promptVars == << entry, settings, promptPc, busy, network, sessionLog, promptError >>

(* The trace array of a turn, with the details of its events *)

VARIABLES
  traceEvents       \* type and details of the events pushed by addTrace

traceVars == << traceEvents >>

(* State of one call of createNativeStreamingChat *)

VARIABLES
  streamPc,         \* "reading" (await reader.read()) or "returned"
  received,         \* frames handed to consumeFrame so far
  assistantText,
  sawMessageDelta,
  events,           \* the events array
  forwarded,        \* the events handed to onEvent
  streamText        \* text of the value returned

streamVars ==
  << streamPc, received, assistantText, sawMessageDelta, events, forwarded, streamText >>

(* State of the session store and of the session view's _sendPrompt calls *)

VARIABLES
  storeState,       \* this.state of the SessionStore: sessions and activeSessionId
  nextId,           \* the id makeId gives next
  providerBusy,     \* this.busy of the session view provider
  prompts           \* the _sendPrompt calls: position, activeSession.id, messages stored

viewVars == << storeState, nextId, providerBusy, prompts >>

vars ==
  << turnVars, clientVars, shellVars, helperVars, promptVars, traceVars, streamVars,
     viewVars >>

\* What a step of the turn, of the client, of the executor, of a helper leaves
\* alone.
notTurn == << clientVars, shellVars, helperVars, promptVars, traceVars, streamVars, viewVars >>
notClient == << turnVars, shellVars, helperVars, promptVars, traceVars, streamVars, viewVars >>
notShell == << turnVars, clientVars, helperVars, promptVars, traceVars, streamVars, viewVars >>
notHelpers == << turnVars, clientVars, shellVars, promptVars, traceVars, streamVars, viewVars >>
notPrompt == << turnVars, clientVars, shellVars, helperVars, traceVars, streamVars, viewVars >>
notTrace == << turnVars, clientVars, shellVars, helperVars, promptVars, streamVars, viewVars >>
notStream == << turnVars, clientVars, shellVars, helperVars, promptVars, traceVars, viewVars >>
notView == << turnVars, clientVars, shellVars, helperVars, promptVars, traceVars, streamVars >>

NoRequest == [messages |-> <<>>, tools |-> <<>>, tool_choice |-> ""]
NoResponse == ChatResponse("", <<>>)
NoResult == [text |-> "", usedTools |-> FALSE, rounds |-> 0]

TurnInit ==
  /\ config \in Configs
  /\ messages \in InputMessages
  /\ pc = "init"
  /\ trace = <<>>
  /\ mcpClient = "null"
  /\ listOutcome = "none"
  /\ mcpTools = <<>>
  /\ openAiTools = <<>>
  /\ mcpEnabled = FALSE
  /\ workingMessages = <<>>
  /\ maxRounds = 0
  /\ round = 0
  /\ request = NoRequest
  /\ requests = 0
  /\ response = NoResponse
  /\ toolIdx = 0
  /\ toolOutcome = "none"
  /\ usedToolsInTurn = FALSE
  /\ result = NoResult
  /\ thrown = ""

NoHttpResponse == [ok |-> FALSE, session |-> "none"]
NoBody == [format |-> "none", wellFormed |-> FALSE, error |-> "none", message |-> ""]
NoPost == [method |-> "", response |-> NoHttpResponse, body |-> NoBody, error |-> ""]

\* new McpHttpClient({ baseUrl, timeoutMs, output })
ClientNew ==
  /\ sessionId = ""
  /\ initialized = FALSE
  /\ callCount = 0
  /\ operation = "none"
  /\ clientPc = "idle"
  /\ method = ""
  /\ sent = <<>>
  /\ timerArmed = FALSE
  /\ elapsed = 0
  /\ httpResponse = NoHttpResponse
  /\ lastPost = NoPost
  /\ callOutcome = "none"
  /\ callError = ""

\* JavaScript values of the limits: undefined, NaN, a finite number (twice
\* holds Denom times its value) or a string.
Undefined == [typeof |-> "undefined", finite |-> FALSE, twice |-> 0, text |-> ""]
NaN == [typeof |-> "number", finite |-> FALSE, twice |-> 0, text |-> ""]
Num(n) == [typeof |-> "number", finite |-> TRUE, twice |-> n * Denom, text |-> ""]
Half(n) == [typeof |-> "number", finite |-> TRUE, twice |-> n, text |-> ""]
Str(t) == [typeof |-> "string", finite |-> FALSE, twice |-> 0, text |-> t]

\* code and signal are those of the close event; code -1 stands for null.
NoChild ==
  [ state |-> "none", killed |-> FALSE, ignoresSigterm |-> FALSE,
    exitsByItself |-> FALSE, code |-> -1, signal |-> "" ]
NoShellResult ==
  [ exit_code |-> 0, signal |-> "", timed_out |-> FALSE, cwd |-> "",
    max_output_chars |-> 0, stdout |-> "", stderr |-> "",
    stdout_truncated |-> FALSE, stderr_truncated |-> FALSE ]
NoText == [text |-> "", truncated |-> FALSE]

\* The executor before runLocalShellToolCall is called.
ShellNew ==
  /\ shellPc = "idle"
  /\ child = NoChild
  /\ spawnCount = 0
  /\ signals = <<>>
  /\ timedOut = FALSE
  /\ timeoutHandle = "none"
  /\ graceHandle = "none"
  /\ spawnError = FALSE
  /\ chunks = <<>>
  /\ stdoutState = NoText
  /\ stderrState = NoText
  /\ mirrorCalls = <<>>
  /\ shellResult = NoShellResult
  /\ shellError = ""

\* A client, and an executor, that are not used.
ClientParked ==
  /\ baseUrl = "http://127.0.0.1:8790/mcp"
  /\ ClientNew

ShellParked ==
  /\ input = [command |-> "pwd", cwd |-> "", max_output_chars |-> Undefined]
  /\ workspaceRoot = "/workspace"
  /\ mirror = "none"
  /\ ShellNew

NoLimitsIn ==
  [ timeout_seconds |-> Undefined, max_output_chars |-> Undefined,
    defaultTimeoutSeconds |-> Undefined, maxTimeoutSeconds |-> Undefined,
    defaultMaxOutputChars |-> Undefined, maxOutputCharsCap |-> Undefined ]
NoLimitsOut == [timeoutSeconds |-> 0, maxOutputChars |-> 0]
NoTruncIn == [value |-> "", maxChars |-> 0]

HelpersParked ==
  /\ helperPc = "idle"
  /\ limitsIn = NoLimitsIn
  /\ limitsOut = NoLimitsOut
  /\ truncIn = NoTruncIn
  /\ truncOut = <<>>

\* A prompt that has not been sent.
PromptNew ==
  /\ promptPc = "idle"
  /\ busy = FALSE
  /\ network = <<>>
  /\ sessionLog = <<>>
  /\ promptError = ""

PromptParked ==
  /\ entry = "view"
  /\ settings = [ baseUrl |-> "http://localhost:1234/v1", model |-> "qwen",
                  chatEndpointMode |-> "openai-compat", mcpEnabled |-> TRUE ]
  /\ PromptNew

TraceParked == traceEvents = <<>>

\* The reader's loop before its first frame.
StreamNew ==
  /\ streamPc = "reading"
  /\ received = <<>>
  /\ assistantText = ""
  /\ sawMessageDelta = FALSE
  /\ events = <<>>
  /\ forwarded = <<>>
  /\ streamText = ""

StreamParked == StreamNew

MaxPrompts == 2   \* sendPrompt messages that reach the provider
MaxSessions == 2  \* sessions created in one store
MaxMessages == 3  \* messages appended to the store directly

Null == 0

NoPrompt == [pc |-> "none", sessionId |-> Null, failed |-> FALSE, stored |-> <<>>]

\* An empty store behind an idle view.
ViewParked ==
  /\ storeState = [sessions |-> <<>>, activeSessionId |-> Null]
  /\ nextId = 1
  /\ providerBusy = FALSE
  /\ prompts = [i \in 1..MaxPrompts |-> NoPrompt]

Init ==
  /\ TurnInit
  /\ ClientParked
  /\ ShellParked
  /\ HelpersParked
  /\ PromptParked
  /\ TraceParked
  /\ StreamParked
  /\ ViewParked

localTools == IF config.localShellEnabled THEN <<getLocalShellOpenAiTool>> ELSE <<>>

\* Number.isFinite(n) ? Math.max(1, n) : 4
MaxRoundsOf(n) ==
  IF n.finite
    THEN (IF n.value > 1 * Denom THEN n.value ELSE 1 * Denom)
    ELSE DefaultMaxRounds * Denom

----------------------------------------------------------------------------
(* runChatWithOptionalMcp up to its first await *)

RunChat ==
  /\ pc = "init"
  /\ IF config.chatEndpointMode = "lmstudio-native-stream"
       THEN /\ trace' = (IF config.mcpEnabled
                           THEN << Ev("start", "Prompt execution started (mode=lmstudio-native-stream)."),
                                   Ev("mcp", "MCP tool-calling is currently bypassed in lmstudio-native-stream mode.") >>
                           ELSE << Ev("start", "Prompt execution started (mode=lmstudio-native-stream).") >>)
            /\ pc' = "stream"
            /\ UNCHANGED <<mcpClient, listOutcome, openAiTools, mcpEnabled>>
       ELSE IF config.mcpEnabled
         THEN /\ trace' = << Ev("start", "Prompt execution started") >>
              /\ mcpEnabled' = TRUE
              /\ mcpClient' = "client"
              /\ listOutcome' = "pending"
              /\ pc' = "listTools"
              /\ UNCHANGED openAiTools
         ELSE /\ mcpEnabled' = FALSE
              /\ IF config.localShellEnabled
                   THEN /\ openAiTools' = localTools
                        /\ trace' = << Ev("start", "Prompt execution started"),
                                       Ev("tool", "MCP disabled; local shell tool is active.") >>
                   ELSE /\ openAiTools' = <<>>
                        /\ trace' = << Ev("start", "Prompt execution started") >>
              /\ pc' = "setup"
              /\ UNCHANGED <<mcpClient, listOutcome>>
  /\ UNCHANGED << notTurn, config, messages, mcpTools, workingMessages, maxRounds, round,
                  request, requests, response, toolIdx, toolOutcome,
                  usedToolsInTurn, result, thrown >>

\* Variant of ListingVerdict: a listing without usable descriptors disables
\* tool calling, the local tool included.
ListingVerdictDropsLocal(mcpOpenAiTools) ==
  IF Len(mcpOpenAiTools) = 0
    THEN [tools |-> <<>>, enabled |-> FALSE,
          event |-> Ev("mcp", "MCP connected but no tools were returned.")]
    ELSE [tools |-> localTools \o mcpOpenAiTools, enabled |-> TRUE,
          event |-> Ev("mcp", "Tools loaded")]

\* Variant of ListingVerdict: a listing without usable descriptors marks remote
\* tooling disabled and keeps the local tool.
ListingVerdictFlagsDisabled(mcpOpenAiTools) ==
  IF Len(mcpOpenAiTools) = 0
    THEN [tools |-> localTools, enabled |-> FALSE,
          event |-> Ev("mcp", "MCP connected but no tools were returned.")]
    ELSE [tools |-> localTools \o mcpOpenAiTools, enabled |-> TRUE,
          event |-> Ev("mcp", "Tools loaded")]

\* What the turn records once tools/list has returned: the exposed tools, the
\* mcp trace event and whether remote tooling stays enabled.
ListingVerdict(mcpOpenAiTools) ==
  LET tools == localTools \o mcpOpenAiTools
  IN  IF Len(tools) = 0
        THEN [tools |-> tools, enabled |-> FALSE,
              event |-> Ev("mcp", "MCP connected but no tools were returned.")]
        ELSE IF Len(mcpOpenAiTools) = 0 /\ config.localShellEnabled
          THEN [tools |-> tools, enabled |-> TRUE,
                event |-> Ev("mcp", "MCP connected; execution tools excluded; local shell tool active.")]
          ELSE [tools |-> tools, enabled |-> TRUE,
                event |-> Ev("mcp", "Tools loaded")]

\* await mcpClient.listTools() resolves with tools.
ListToolsReturn(tools) ==
  /\ pc = "listTools"
  /\ LET verdict == ListingVerdict(asOpenAiTools(tools, MCP_EXECUTION_TOOL_NAMES))
     IN  /\ openAiTools' = verdict.tools
         /\ mcpEnabled' = verdict.enabled
         /\ trace' = Append(trace, verdict.event)
  /\ listOutcome' = "returned"
  /\ mcpTools' = tools
  /\ pc' = "setup"
  /\ UNCHANGED << notTurn, config, messages, mcpClient, workingMessages, maxRounds, round,
                  request, requests, response, toolIdx, toolOutcome,
                  usedToolsInTurn, result, thrown >>

\* Variant of ListToolsThrow: the listing error is not caught.
ListToolsThrowPropagates ==
  /\ pc = "listTools"
  /\ listOutcome' = "threw"
  /\ pc' = "thrown"
  /\ thrown' = "MCP request timed out after 15000ms."
  /\ UNCHANGED << notTurn, config, messages, trace, mcpClient, mcpTools, openAiTools,
                  mcpEnabled, workingMessages, maxRounds, round, request, requests,
                  response, toolIdx, toolOutcome, usedToolsInTurn, result >>

\* await mcpClient.listTools() rejects (handshake or tools/list failed).
ListToolsThrow ==
  /\ pc = "listTools"
  /\ listOutcome' = "threw"
  /\ trace' = Append(trace, Ev("mcp", "MCP disabled for this turn."))
  /\ mcpEnabled' = FALSE
  /\ pc' = "setup"
  /\ UNCHANGED << notTurn, config, messages, mcpClient, mcpTools, openAiTools, workingMessages,
                  maxRounds, round, request, requests, response, toolIdx,
                  toolOutcome, usedToolsInTurn, result, thrown >>

----------------------------------------------------------------------------
(* The round loop *)

\* Head of the for loop with index rnd: the next completion request is sent,
\* or the budget is exhausted and the advisory result is returned.
\* Sets pc, trace, workingMessages, round, request, requests and result.
ForLoop(rnd, wm, tr, mr, tools) ==
  /\ round' = rnd
  /\ workingMessages' = wm
  /\ IF rnd * Denom < mr
       THEN /\ trace' = Append(tr, Ev("round", "requesting model completion."))
            /\ request' = [ messages |-> wm,
                            tools |-> tools,
                            tool_choice |-> IF Len(tools) > 0 THEN "auto" ELSE "" ]
            /\ requests' = requests + 1
            /\ pc' = "completion"
            /\ result' = result
       ELSE /\ trace' = Append(tr, Ev("limit", "Stopped after reaching max tool-call rounds."))
            /\ pc' = "done"
            /\ result' = [text |-> AdvisoryText, usedTools |-> TRUE, rounds |-> mr]
            /\ UNCHANGED <<request, requests>>

\* From the end of the tool listing to the first completion request.
BeginLoop ==
  /\ pc = "setup"
  /\ LET tools == IF mcpEnabled /\ config.localShellEnabled /\ Len(openAiTools) = 0
                    THEN localTools
                    ELSE openAiTools
         mr == MaxRoundsOf(config.mcpMaxToolRounds)
     IN  /\ openAiTools' = tools
         /\ maxRounds' = mr
         /\ ForLoop(0, messages, trace, mr, tools)
  /\ mcpTools' = <<>>
  /\ UNCHANGED << notTurn, config, messages, mcpClient, listOutcome, mcpEnabled, response,
                  toolIdx, toolOutcome, usedToolsInTurn, thrown >>

\* Number of tool_calls entries the working conversation carries.
RECURSIVE TurnCalls(_)
TurnCalls(wm) ==
  IF wm = <<>> THEN 0
  ELSE LET m == wm[Len(wm)]
       IN  TurnCalls(SubSeq(wm, 1, Len(wm) - 1))
             + (IF m.role = "assistant" /\ "tool_calls" \in DOMAIN m
                  THEN Len(m.tool_calls) ELSE 0)

\* await createChatCompletion(...) resolves with resp.
CompletionReturn(resp) ==
  /\ pc = "completion"
  /\ TurnCalls(workingMessages) + Len(resp.toolCalls) <= MaxTurnCalls
  /\ response' = resp
  /\ LET toolCallCount == countToolCalls(resp)
         tr == Append(trace, Ev("round", "model responded"))
     IN  IF toolCallCount = 0
           THEN /\ trace' = Append(tr, Ev("final", "Model returned final response without additional tool calls."))
                /\ result' = [ text |-> resp.text,
                               usedTools |-> usedToolsInTurn,
                               rounds |-> (round + 1) * Denom ]
                /\ pc' = "done"
                /\ UNCHANGED <<workingMessages, round, request, requests, toolIdx>>
           ELSE LET assistantMessage == [ role |-> "assistant",
                                          content |-> resp.message.content,
                                          tool_calls |-> resp.toolCalls ]
                    wm == Append(workingMessages, assistantMessage)
                    tr2 == Append(tr, Ev("tool", "executing tool call(s)."))
                IN  IF Len(resp.toolCalls) = 0
                      THEN /\ toolIdx' = 0
                           /\ ForLoop(round + 1, wm, tr2, maxRounds, openAiTools)
                      ELSE /\ toolIdx' = 1
                           /\ workingMessages' = wm
                           /\ trace' = tr2
                           /\ pc' = "toolLoop"
                           /\ UNCHANGED <<round, request, requests, result>>
  /\ toolOutcome' = "none"
  /\ UNCHANGED << notTurn, config, messages, mcpClient, listOutcome, mcpTools, openAiTools,
                  mcpEnabled, maxRounds, usedToolsInTurn, thrown >>

\* await createChatCompletion(...) rejects: nothing catches it.
CompletionThrow ==
  /\ pc = "completion"
  /\ pc' = "thrown"
  /\ thrown' = "Chat completion failed"
  /\ UNCHANGED << notTurn, config, messages, trace, mcpClient, listOutcome, mcpTools,
                  openAiTools, mcpEnabled, workingMessages, maxRounds, round,
                  request, requests, response, toolIdx, toolOutcome,
                  usedToolsInTurn, result >>

toolCall == response.toolCalls[toolIdx]

\* toolCall?.function?.name || ""
ToolNameOf(tc) == IF tc.null THEN "" ELSE tc.function.name

\* toolCall?.function?.arguments || "{}"
RawArgsOf(tc) ==
  IF tc.null \/ tc.function.arguments.typeof = "undefined"
       \/ (tc.function.arguments.typeof = "string" /\ tc.function.arguments.text = "")
    THEN [typeof |-> "string", text |-> "{}"]
    ELSE tc.function.arguments

\* Variant of ToolMessage: the back-reference is the tool name.
ToolMessageWrongId(tc, toolResultText) ==
  [ role |-> "tool",
    tool_call_id |-> ToolNameOf(tc),
    name |-> ToolNameOf(tc),
    content |-> toolResultText ]

\* The tool message that answers the tool call tc.
ToolMessage(tc, toolResultText) ==
  [ role |-> "tool",
    tool_call_id |-> tc.id,
    name |-> ToolNameOf(tc),
    content |-> toolResultText ]

\* Variant of FinishToolCall: the result of a call that is not the last of its
\* round is dropped before the next call starts.
FinishToolCallDeferred(toolResultText, tr) ==
  IF toolCall.null
    THEN /\ pc' = "thrown"
         /\ thrown' = "TypeError: Cannot read properties of null (reading 'id')"
         /\ trace' = tr
         /\ UNCHANGED <<workingMessages, toolIdx, round, request, requests, result>>
    ELSE /\ thrown' = thrown
         /\ IF toolIdx < Len(response.toolCalls)
              THEN /\ toolIdx' = toolIdx + 1
                   /\ trace' = tr
                   /\ pc' = "toolLoop"
                   /\ UNCHANGED <<workingMessages, round, request, requests, result>>
              ELSE /\ toolIdx' = toolIdx
                   /\ ForLoop(round + 1,
                              Append(workingMessages, ToolMessage(toolCall, toolResultText)),
                              tr, maxRounds, openAiTools)

\* End of one iteration of the tool loop: the tool message is appended and the
\* loop moves to the next tool call or to the next round.
\* Sets pc, thrown, trace, workingMessages, toolIdx, round, request, requests
\* and result.
FinishToolCall(toolResultText, tr) ==
  IF toolCall.null
    THEN /\ pc' = "thrown"
         /\ thrown' = "TypeError: Cannot read properties of null (reading 'id')"
         /\ trace' = tr
         /\ UNCHANGED <<workingMessages, toolIdx, round, request, requests, result>>
    ELSE LET wm == Append(workingMessages, ToolMessage(toolCall, toolResultText))
         IN  /\ thrown' = thrown
             /\ IF toolIdx < Len(response.toolCalls)
                  THEN /\ toolIdx' = toolIdx + 1
                       /\ workingMessages' = wm
                       /\ trace' = tr
                       /\ pc' = "toolLoop"
                       /\ UNCHANGED <<round, request, requests, result>>
                  ELSE /\ toolIdx' = toolIdx
                       /\ ForLoop(round + 1, wm, tr, maxRounds, openAiTools)

\* Variant of CallTool: running a tool call does not set usedToolsInTurn.
CallToolKeepsFlag ==
  /\ pc = "toolLoop"
  /\ usedToolsInTurn' = usedToolsInTurn
  /\ LET toolName == ToolNameOf(toolCall)
         tr == Append(trace, Ev("tool", "Calling tool"))
     IN  IF toolName = LOCAL_SHELL_TOOL_NAME
           THEN /\ pc' = "localShell"
                /\ toolOutcome' = "pending"
                /\ trace' = tr
                /\ UNCHANGED << workingMessages, toolIdx, round, request, requests,
                                result, thrown >>
           ELSE IF mcpClient = "null"
             THEN /\ toolOutcome' = "rejected"
                  /\ FinishToolCall(
                       "MCP tool call failed: MCP client unavailable for non-local tool.",
                       Append(tr, Ev("tool-error", "Tool failed")))
             ELSE /\ pc' = "mcpCall"
                  /\ toolOutcome' = "pending"
                  /\ trace' = tr
                  /\ UNCHANGED << workingMessages, toolIdx, round, request, requests,
                                  result, thrown >>
  /\ UNCHANGED << notTurn, config, messages, mcpClient, listOutcome, mcpTools, openAiTools,
                  mcpEnabled, maxRounds, response >>

\* One iteration of the tool loop up to its await, or to its end when the
\* iteration never suspends.
CallTool ==
  /\ pc = "toolLoop"
  /\ usedToolsInTurn' = TRUE
  /\ LET toolName == ToolNameOf(toolCall)
         tr == Append(trace, Ev("tool", "Calling tool"))
     IN  IF toolName = LOCAL_SHELL_TOOL_NAME
           THEN /\ pc' = "localShell"
                /\ toolOutcome' = "pending"
                /\ trace' = tr
                /\ UNCHANGED << workingMessages, toolIdx, round, request, requests,
                                result, thrown >>
           ELSE IF mcpClient = "null"
             THEN /\ toolOutcome' = "rejected"
                  /\ FinishToolCall(
                       "MCP tool call failed: MCP client unavailable for non-local tool.",
                       Append(tr, Ev("tool-error", "Tool failed")))
             ELSE /\ pc' = "mcpCall"
                  /\ toolOutcome' = "pending"
                  /\ trace' = tr
                  /\ UNCHANGED << workingMessages, toolIdx, round, request, requests,
                                  result, thrown >>
  /\ UNCHANGED << notTurn, config, messages, mcpClient, listOutcome, mcpTools, openAiTools,
                  mcpEnabled, maxRounds, response >>

\* runLocalShellToolCall's validation of its input.
LocalShellAccepts(args) == Member(args, "command") # ""

\* await runLocalShellToolCall(...) resolves with the structured result.
LocalShellReturn ==
  /\ pc = "localShell"
  /\ LocalShellAccepts(parseToolArguments(RawArgsOf(toolCall)))
  /\ toolOutcome' = "resolved"
  /\ FinishToolCall("{\"tool\":\"run_local_shell_command\",\"exit_code\":0}",
                    Append(trace, Ev("tool", "Local shell result")))
  /\ UNCHANGED << notTurn, config, messages, mcpClient, listOutcome, mcpTools, openAiTools,
                  mcpEnabled, maxRounds, response, usedToolsInTurn >>

\* await runLocalShellToolCall(...) rejects with a validation error.
LocalShellThrow ==
  /\ pc = "localShell"
  /\ ~LocalShellAccepts(parseToolArguments(RawArgsOf(toolCall)))
  /\ toolOutcome' = "rejected"
  /\ FinishToolCall(
       "Local shell tool failed: run_local_shell_command requires a non-empty 'command'.",
       Append(trace, Ev("tool-error", "Local shell failed")))
  /\ UNCHANGED << notTurn, config, messages, mcpClient, listOutcome, mcpTools, openAiTools,
                  mcpEnabled, maxRounds, response, usedToolsInTurn >>

\* await mcpClient.callTool(...) resolves.
McpCallReturn ==
  /\ pc = "mcpCall"
  /\ toolOutcome' = "resolved"
  /\ FinishToolCall("tool output", Append(trace, Ev("tool", "Tool result")))
  /\ UNCHANGED << notTurn, config, messages, mcpClient, listOutcome, mcpTools, openAiTools,
                  mcpEnabled, maxRounds, response, usedToolsInTurn >>

\* Variant of McpCallThrow: the gateway error is not caught.
McpCallThrowPropagates ==
  /\ pc = "mcpCall"
  /\ toolOutcome' = "rejected"
  /\ pc' = "thrown"
  /\ thrown' = "MCP request timed out after 15000ms."
  /\ UNCHANGED << notTurn, config, messages, trace, mcpClient, listOutcome, mcpTools,
                  openAiTools, mcpEnabled, workingMessages, maxRounds, round,
                  request, requests, response, toolIdx, usedToolsInTurn, result >>

\* await mcpClient.callTool(...) rejects.
McpCallThrow ==
  /\ pc = "mcpCall"
  /\ toolOutcome' = "rejected"
  /\ FinishToolCall("MCP tool call failed: MCP request timed out after 15000ms.",
                    Append(trace, Ev("tool-error", "Tool failed")))
  /\ UNCHANGED << notTurn, config, messages, mcpClient, listOutcome, mcpTools, openAiTools,
                  mcpEnabled, maxRounds, response, usedToolsInTurn >>

----------------------------------------------------------------------------
(* Native streaming mode *)

\* Variant of StreamReturn: the streamed turn reports tool use.
StreamReturnUsedTools(text) ==
  /\ pc = "stream"
  /\ trace' = Append(trace, Ev("final", "Native streaming response completed."))
  /\ result' = [ text |-> IF text # "" THEN text
                          ELSE "Model returned no assistant text. Check trace for stream events.",
                 usedTools |-> config.mcpEnabled \/ config.localShellEnabled,
                 rounds |-> 1 * Denom ]
  /\ pc' = "done"
  /\ UNCHANGED << notTurn, config, messages, mcpClient, listOutcome, mcpTools, openAiTools,
                  mcpEnabled, workingMessages, maxRounds, round, request, requests,
                  response, toolIdx, toolOutcome, usedToolsInTurn, thrown >>

\* await createNativeStreamingChat(...) resolves with the streamed text.
StreamReturn(text) ==
  /\ pc = "stream"
  /\ trace' = Append(trace, Ev("final", "Native streaming response completed."))
  /\ result' = [ text |-> IF text # "" THEN text
                          ELSE "Model returned no assistant text. Check trace for stream events.",
                 usedTools |-> FALSE,
                 rounds |-> 1 * Denom ]
  /\ pc' = "done"
  /\ UNCHANGED << notTurn, config, messages, mcpClient, listOutcome, mcpTools, openAiTools,
                  mcpEnabled, workingMessages, maxRounds, round, request, requests,
                  response, toolIdx, toolOutcome, usedToolsInTurn, thrown >>

\* await createNativeStreamingChat(...) rejects: nothing catches it.
StreamThrow ==
  /\ pc = "stream"
  /\ pc' = "thrown"
  /\ thrown' = "Native stream chat failed"
  /\ UNCHANGED << notTurn, config, messages, trace, mcpClient, listOutcome, mcpTools,
                  openAiTools, mcpEnabled, workingMessages, maxRounds, round,
                  request, requests, response, toolIdx, toolOutcome,
                  usedToolsInTurn, result >>

----------------------------------------------------------------------------
(* The protocol client, src/src/mcp-client.js *)

BaseUrls == {"", "http://127.0.0.1:8790/mcp"}

\* What fetch resolves with: the status class and the mcp-session-id header.
HttpResponses == [ok : BOOLEAN, session : {"", "session-1", "session-2"}]

\* Response bodies: the wire format, whether a JSON payload can be read from
\* it, and the error member of that payload ("" for none or falsy).
Bodies ==
  { [format |-> "json", wellFormed |-> TRUE, error |-> "none", message |-> ""],
    [format |-> "json", wellFormed |-> TRUE, error |-> "object", message |-> "Unknown tool"],
    [format |-> "json", wellFormed |-> TRUE, error |-> "object", message |-> ""],
    [format |-> "json", wellFormed |-> FALSE, error |-> "none", message |-> ""],
    [format |-> "sse", wellFormed |-> TRUE, error |-> "none", message |-> ""],
    [format |-> "sse", wellFormed |-> TRUE, error |-> "object", message |-> "Unknown tool"],
    [format |-> "sse", wellFormed |-> FALSE, error |-> "none", message |-> ""],
    [format |-> "empty", wellFormed |-> FALSE, error |-> "none", message |-> ""],
    [format |-> "text", wellFormed |-> FALSE, error |-> "none", message |-> ""] }

\* _parseMcpBody: threw is the error it throws, "" when it returns the payload.
ParseMcpBody(body) ==
  CASE body.format = "empty" -> [threw |-> "MCP response body is empty."]
    [] body.format = "json" ->
         [threw |-> IF body.wellFormed THEN "" ELSE "SyntaxError: Unexpected end of JSON input"]
    [] body.format = "sse" ->
         [threw |-> IF body.wellFormed THEN ""
                    ELSE "Unable to parse MCP JSON payload from response."]
    [] OTHER -> [threw |-> "Unexpected MCP response format"]

\* Variant of PostVerdict: the error member of the payload is not looked at.
PostVerdictIgnoresError(resp, body) ==
  IF ~resp.ok THEN "MCP HTTP 500"
  ELSE ParseMcpBody(body).threw

\* The error _post throws once the body of response resp has been read, "" when
\* it returns the parsed payload.
PostVerdict(resp, body) ==
  IF ~resp.ok THEN "MCP HTTP 500"
  ELSE IF ParseMcpBody(body).threw # "" THEN ParseMcpBody(body).threw
  ELSE IF body.error # "none"
    THEN "MCP error: " \o (IF body.message # "" THEN body.message ELSE "Unknown MCP error")
    ELSE ""

\* The client and its call in progress, as one record.
Client ==
  [ sessionId |-> sessionId, initialized |-> initialized, clientPc |-> clientPc,
    method |-> method, sent |-> sent, timerArmed |-> timerArmed,
    elapsed |-> elapsed, lastPost |-> lastPost,
    callOutcome |-> callOutcome, callError |-> callError ]

SetClient(c) ==
  /\ sessionId' = c.sessionId
  /\ initialized' = c.initialized
  /\ clientPc' = c.clientPc
  /\ method' = c.method
  /\ sent' = c.sent
  /\ timerArmed' = c.timerArmed
  /\ elapsed' = c.elapsed
  /\ lastPost' = c.lastPost
  /\ callOutcome' = c.callOutcome
  /\ callError' = c.callError

\* The request listTools / callTool is made for.
MainMethod(op) == IF op = "listTools" THEN "tools/list" ELSE "tools/call"

\* Variant of AllowWithoutSession: every request may go without a session id.
AllowWithoutSessionAlways(m) == TRUE

\* The allowWithoutSession option _post is given for method m.
AllowWithoutSession(m) == m = "initialize"

\* A _post for method m that ended with err, having read resp and body.
Ended(m, resp, body, err) ==
  [method |-> m, response |-> resp, body |-> body, error |-> err]

RECURSIVE Post(_, _, _)
RECURSIVE Settle(_, _, _)

\* _post for method m, from its entry to await fetch(...), or to its throw when
\* it fails before the transport is used.
Post(c, op, m) ==
  IF baseUrl = ""
    THEN Settle(c, op, Ended(m, NoHttpResponse, NoBody, "joshgpt.mcp.baseUrl is empty."))
    ELSE IF c.sessionId = "" /\ ~AllowWithoutSession(m)
      THEN Settle(c, op, Ended(m, NoHttpResponse, NoBody, "MCP session is not initialized."))
      ELSE [ c EXCEPT !.clientPc = "fetch",
                      !.method = m,
                      !.sent = Append(@, [method |-> m, session |-> c.sessionId]),
                      !.timerArmed = TRUE,
                      !.elapsed = 0 ]

\* A _post has returned or thrown: the rest of initialize / listTools /
\* callTool up to the next await or to the call's end.
Settle(c, op, post) ==
  LET m == post.method
      err == post.error
      d == [ c EXCEPT !.clientPc = "idle", !.method = "", !.timerArmed = FALSE,
                      !.elapsed = 0, !.lastPost = post ]
  IN  CASE m = "initialize" ->
             IF err = ""
               THEN Post(d, op, "notifications/initialized")
               ELSE [d EXCEPT !.callOutcome = "threw", !.callError = err]
        [] m = "notifications/initialized" ->
             Post([d EXCEPT !.initialized = TRUE], op, MainMethod(op))
        [] OTHER ->
             IF err = ""
               THEN [d EXCEPT !.callOutcome = "returned", !.callError = ""]
               ELSE [d EXCEPT !.callOutcome = "threw", !.callError = err]

\* Variant of initialize: the handshake is made on every call.
initializeAlways(c, op) == Post(c, op, "initialize")

\* await this.initialize() and what follows it in listTools / callTool.
initialize(c, op) ==
  IF c.initialized
    THEN Post(c, op, MainMethod(op))
    ELSE Post(c, op, "initialize")

\* A call of listTools or callTool on the idle client, up to its first await.
Call(op) ==
  /\ clientPc = "idle"
  /\ callCount < MaxCalls
  /\ callCount' = callCount + 1
  /\ operation' = op
  /\ SetClient(initialize([ Client EXCEPT !.callOutcome = "pending",
                                           !.callError = "",
                                           !.lastPost = NoPost ], op))
  /\ UNCHANGED << baseUrl, httpResponse >>
  /\ UNCHANGED notClient

listTools == Call("listTools")

callTool == Call("callTool")

\* await fetch(...) resolves: the finally clause clears the abort timer and
\* the body is awaited.
FetchResolve(resp) ==
  /\ clientPc = "fetch"
  /\ clientPc' = "body"
  /\ timerArmed' = FALSE
  /\ httpResponse' = resp
  /\ UNCHANGED << baseUrl, sessionId, initialized, callCount, operation, method,
                  sent, elapsed, lastPost, callOutcome, callError >>
  /\ UNCHANGED notClient

\* await fetch(...) rejects with a network error.
FetchReject ==
  /\ clientPc = "fetch"
  /\ SetClient(Settle(Client, operation,
                      Ended(method, NoHttpResponse, NoBody, "fetch failed")))
  /\ UNCHANGED << baseUrl, callCount, operation, httpResponse >>
  /\ UNCHANGED notClient

\* The abort timer fires: controller.abort() makes fetch reject with an
\* AbortError, which _post rethrows as the timeout error.
AbortTimerFires ==
  /\ clientPc = "fetch"
  /\ timerArmed
  /\ elapsed >= TimeoutTicks
  /\ SetClient(Settle(Client, operation,
                      Ended(method, NoHttpResponse, NoBody,
                            "MCP request timed out after 15000ms.")))
  /\ UNCHANGED << baseUrl, callCount, operation, httpResponse >>
  /\ UNCHANGED notClient

\* await response.text() resolves with body.
BodyResolve(body) ==
  /\ clientPc = "body"
  /\ LET returnedSessionId == httpResponse.session
         c == [ Client EXCEPT !.sessionId =
                  IF returnedSessionId # "" THEN returnedSessionId ELSE @ ]
     IN  SetClient(Settle(c, operation,
                          Ended(method, httpResponse, body,
                                PostVerdict(httpResponse, body))))
  /\ httpResponse' = NoHttpResponse
  /\ UNCHANGED << baseUrl, callCount, operation >>
  /\ UNCHANGED notClient

\* await response.text() rejects: the connection broke while the body came in.
BodyReject ==
  /\ clientPc = "body"
  /\ SetClient(Settle(Client, operation,
                      Ended(method, httpResponse, NoBody, "terminated")))
  /\ httpResponse' = NoHttpResponse
  /\ UNCHANGED << baseUrl, callCount, operation >>
  /\ UNCHANGED notClient

\* The clock advances while a request is in flight; a pending abort timer
\* fires before the clock passes its deadline.
Tick ==
  /\ clientPc \in {"fetch", "body"}
  /\ elapsed <= TimeoutTicks
  /\ ~(timerArmed /\ elapsed >= TimeoutTicks)
  /\ elapsed' = elapsed + 1
  /\ UNCHANGED << baseUrl, sessionId, initialized, callCount, operation, clientPc,
                  method, sent, timerArmed, httpResponse, lastPost, callOutcome,
                  callError >>
  /\ UNCHANGED notClient

----------------------------------------------------------------------------
(* Pure helpers of the executor, src/unnamed/part_000 lines 9-68 *)

MathMax(a, b) == IF a >= b THEN a ELSE b

\* Math.trunc of a finite number held as Denom times its value.
MathTrunc(twice) == IF twice >= 0 THEN twice \div Denom ELSE -((-twice) \div Denom)

\* Number.parseInt(text, 10) over the texts of the model; finite = not NaN.
ParseInt(text) ==
  CASE text = "7" -> [finite |-> TRUE, value |-> 7]
    [] text = "12abc" -> [finite |-> TRUE, value |-> 12]
    [] text = "-3" -> [finite |-> TRUE, value |-> -3]
    [] text = "400" -> [finite |-> TRUE, value |-> 400]
    [] OTHER -> [finite |-> FALSE, value |-> 0]

\* String(value || "") for a value that is not a finite number.
StringOrEmpty(value) == IF value.typeof = "string" THEN value.text ELSE ""

asInt(value, fallback) ==
  IF value.typeof = "number" /\ value.finite
    THEN MathTrunc(value.twice)
    ELSE LET parsed == ParseInt(StringOrEmpty(value))
         IN  IF parsed.finite THEN parsed.value ELSE fallback

\* Variant of bounded: the maximum is not applied.
boundedBelowOnly(value, min, max, fallback) ==
  LET parsed == asInt(value, fallback)
  IN  IF parsed < min THEN min ELSE parsed

bounded(value, min, max, fallback) ==
  LET parsed == asInt(value, fallback)
  IN  IF parsed < min THEN min
      ELSE IF parsed > max THEN max
      ELSE parsed

\* A parameter with a default value: the default replaces undefined.
Defaulted(value, default) == IF value.typeof = "undefined" THEN Num(default) ELSE value

\* timeoutSeconds of runLocalShellToolCall (lines 170-175).
TimeoutSecondsOf(in) ==
  bounded(in.timeout_seconds, 1,
          MathMax(1, asInt(Defaulted(in.maxTimeoutSeconds, 300), 300)),
          MathMax(1, asInt(Defaulted(in.defaultTimeoutSeconds, 30), 30)))

\* maxOutputChars of runLocalShellToolCall (lines 176-181).
MaxOutputCharsOf(in) ==
  bounded(in.max_output_chars, 256,
          MathMax(256, asInt(Defaulted(in.maxOutputCharsCap, 50000), 50000)),
          MathMax(256, asInt(Defaulted(in.defaultMaxOutputChars, 12000), 12000)))

\* Texts of 1 to 256 characters.
X1 == "x"
X2 == X1 \o X1
X4 == X2 \o X2
X8 == X4 \o X4
X16 == X8 \o X8
X32 == X16 \o X16
X64 == X32 \o X32
X128 == X64 \o X64
X256 == X128 \o X128

TruncationSuffix == "\n...[truncated]"

\* text.slice(0, n)
Slice(text, n) == SubSeq(text, 1, IF n < Len(text) THEN n ELSE Len(text))

\* Variant of truncateText: the marker is appended to every text.
truncateTextAlwaysMarks(value, maxChars) ==
  LET headBudget == MathMax(0, maxChars - Len(TruncationSuffix))
  IN  [text |-> Slice(value, headBudget) \o TruncationSuffix, truncated |-> TRUE]

truncateText(value, maxChars) ==
  IF Len(value) <= maxChars
    THEN [text |-> value, truncated |-> FALSE]
    ELSE LET headBudget == MathMax(0, maxChars - Len(TruncationSuffix))
         IN  [text |-> Slice(value, headBudget) \o TruncationSuffix, truncated |-> TRUE]

\* Requests and configurations of the limits.
TimeoutRequests ==
  { Undefined, NaN, Str("abc"), Str("7"), Num(0), Half(3), Num(5), Num(1000) }
MaxTimeouts == { Undefined, Num(10), Num(-5), Str("x") }
DefaultTimeouts == { Undefined, Num(3), Num(0), Num(20) }
CapRequests == { Undefined, Str("abc"), Num(100), Num(256), Num(1000), Num(60000) }
MaxCaps == { Undefined, Num(2000), Num(100) }
DefaultCaps == { Undefined, Num(500), Num(100), Num(5000) }

LimitsInputs ==
  [ timeout_seconds : TimeoutRequests, max_output_chars : CapRequests,
    defaultTimeoutSeconds : DefaultTimeouts, maxTimeoutSeconds : MaxTimeouts,
    defaultMaxOutputChars : DefaultCaps, maxOutputCharsCap : MaxCaps ]

\* Texts and caps handed to truncateText; "" is also what String(value || "")
\* makes of an absent value.
TruncTexts == { "", X1, SubSeq(X256, 1, 255), X256, X256 \o X1, X256 \o X256 }
TruncCaps == { 256, 257, 300 }

\* The limits of one call are computed.
Bounded ==
  /\ helperPc = "bounded"
  /\ limitsOut' = [ timeoutSeconds |-> TimeoutSecondsOf(limitsIn),
                    maxOutputChars |-> MaxOutputCharsOf(limitsIn) ]
  /\ helperPc' = "returned"
  /\ UNCHANGED << limitsIn, truncIn, truncOut >>
  /\ UNCHANGED notHelpers

\* truncateText is applied to the text.
TruncateText ==
  /\ helperPc = "truncateText"
  /\ truncOut' = << truncateText(truncIn.value, truncIn.maxChars) >>
  /\ helperPc' = "returned"
  /\ UNCHANGED << limitsIn, limitsOut, truncIn >>
  /\ UNCHANGED notHelpers

\* truncateText is applied to its own result.
TruncateAgain ==
  /\ helperPc = "returned"
  /\ Len(truncOut) = 1
  /\ truncOut' = Append(truncOut, truncateText(truncOut[1].text, truncIn.maxChars))
  /\ helperPc' = "reapplied"
  /\ UNCHANGED << limitsIn, limitsOut, truncIn >>
  /\ UNCHANGED notHelpers

----------------------------------------------------------------------------
(* The local command executor, src/unnamed/part_000 (local-shell-tool.js     *)
(* with the live observer)                                                   *)

\* The file system the executor sees.
Directories == {"/workspace", "/workspace/src", "/tmp"}
RegularFiles == {"/workspace/README.md"}
ProcessCwd == "/tmp"

\* input.command, input.cwd and input.max_output_chars as the model may send
\* them; "" is an absent or empty member.
Commands == {"", "   ", "pwd", " ls "}
Cwds == {"", ".", "src", "  src ", "missing", "README.md", "/tmp", "/nowhere"}
OutputCaps == { Num(256) }
WorkspaceRoots == {"/workspace", ""}
Mirrors == {"none", "listening", "throwing"}

\* Texts of the chunks a command writes.
ChunkTexts == { X1, X256 }

\* path.isAbsolute(p)
IsAbsolute(p) == p \in {"/tmp", "/nowhere"}

\* path.resolve(base, p) for an absolute base and a relative p.
PathResolve(base, p) == IF p = "." THEN base ELSE base \o "/" \o p

\* Variant of resolveCwd: the candidate is not looked up in the file system.
resolveCwdUnchecked(rawCwd, root) ==
  LET fallback == IF Trim(root) # "" THEN Trim(root) ELSE ProcessCwd
      requested == Trim(rawCwd)
      candidate == IF requested # ""
                     THEN (IF IsAbsolute(requested) THEN requested
                           ELSE PathResolve(fallback, requested))
                     ELSE fallback
  IN  [ok |-> TRUE, normalized |-> candidate]

\* resolveCwd: ok = it returned normalized; otherwise it threw.
resolveCwd(rawCwd, root) ==
  LET fallback == IF Trim(root) # "" THEN Trim(root) ELSE ProcessCwd
      requested == Trim(rawCwd)
      candidate == IF requested # ""
                     THEN (IF IsAbsolute(requested) THEN requested
                           ELSE PathResolve(fallback, requested))
                     ELSE fallback
  IN  [ok |-> candidate \in Directories, normalized |-> candidate]

\* maxOutputChars of the call, the options being left at their defaults.
MaxOutputChars ==
  MaxOutputCharsOf([NoLimitsIn EXCEPT !.max_output_chars = input.max_output_chars])

appendLimitedText(state, chunk, maxChars) ==
  IF chunk = "" THEN state
  ELSE IF Len(state.text) >= maxChars THEN [state EXCEPT !.truncated = TRUE]
  ELSE LET remaining == maxChars - Len(state.text)
       IN  IF Len(chunk) > remaining
             THEN [text |-> state.text \o Slice(chunk, remaining), truncated |-> TRUE]
             ELSE [state EXCEPT !.text = @ \o chunk]

asFinalText(state, maxChars) ==
  LET base == truncateText(state.text, maxChars)
  IN  [text |-> base.text, truncated |-> base.truncated \/ state.truncated]

\* Variant of safeMirrorCall: what the observer throws is not caught.
unsafeMirrorCall(log, methodName) ==
  IF mirror = "none"
    THEN [log |-> log, threw |-> FALSE]
    ELSE [log |-> Append(log, methodName), threw |-> mirror = "throwing"]

\* safeMirrorCall: the observer's method is called if there is an observer;
\* what it throws is swallowed.  threw = the call let an exception out.
safeMirrorCall(log, methodName) ==
  IF mirror = "none"
    THEN [log |-> log, threw |-> FALSE]
    ELSE [log |-> Append(log, methodName), threw |-> FALSE]

\* runLocalShellToolCall(input, options) up to the promise it returns: the
\* validation, the observer's onStart, the spawn and the timeout timer.
runLocalShellToolCall ==
  /\ shellPc = "idle"
  /\ LET command == Trim(input.command)
         cwd == resolveCwd(input.cwd, workspaceRoot)
         started == safeMirrorCall(mirrorCalls, "onStart")
     IN  IF command = ""
           THEN /\ shellPc' = "rejected"
                /\ shellError' = "run_local_shell_command requires a non-empty 'command'."
                /\ UNCHANGED << child, spawnCount, timeoutHandle, mirrorCalls >>
           ELSE IF ~cwd.ok
             THEN /\ shellPc' = "rejected"
                  /\ shellError' = "Working directory does not exist or is not a directory: "
                                     \o cwd.normalized
                  /\ UNCHANGED << child, spawnCount, timeoutHandle, mirrorCalls >>
           ELSE IF started.threw
             THEN /\ mirrorCalls' = started.log
                  /\ shellPc' = "rejected"
                  /\ shellError' = "onStart threw"
                  /\ UNCHANGED << child, spawnCount, timeoutHandle >>
             ELSE /\ mirrorCalls' = started.log
                  /\ \E ignores \in BOOLEAN, exits \in BOOLEAN :
                       child' = [ state |-> "running", killed |-> FALSE,
                                  ignoresSigterm |-> ignores, exitsByItself |-> exits,
                                  code |-> -1, signal |-> "" ]
                  /\ spawnCount' = spawnCount + 1
                  /\ timeoutHandle' = "pending"
                  /\ shellPc' = "running"
                  /\ UNCHANGED shellError
  /\ UNCHANGED << input, workspaceRoot, mirror, signals, timedOut, graceHandle,
                  spawnError, chunks, stdoutState, stderrState, shellResult >>
  /\ UNCHANGED notShell

\* child.stdout / child.stderr emit a chunk.
OutputData(stream, text) ==
  /\ shellPc = "running"
  /\ child.state = "running"
  /\ ~spawnError
  /\ Len(chunks) < MaxChunks
  /\ chunks' = Append(chunks, [stream |-> stream, text |-> text])
  /\ stdoutState' = IF stream = "stdout"
                      THEN appendLimitedText(stdoutState, text, MaxOutputChars)
                      ELSE stdoutState
  /\ stderrState' = IF stream = "stderr"
                      THEN appendLimitedText(stderrState, text, MaxOutputChars)
                      ELSE stderrState
  /\ LET mirrored == safeMirrorCall(mirrorCalls,
                                    IF stream = "stdout" THEN "onStdout" ELSE "onStderr")
     IN  /\ mirrorCalls' = mirrored.log
         /\ shellPc' = IF mirrored.threw THEN "crashed" ELSE shellPc
  /\ UNCHANGED << input, workspaceRoot, mirror, child, spawnCount, signals, timedOut,
                  timeoutHandle, graceHandle, spawnError, shellResult, shellError >>
  /\ UNCHANGED notShell

\* child emits "error": the shell could not be spawned.
ChildError ==
  /\ shellPc = "running"
  /\ child.state = "running"
  /\ ~spawnError
  /\ chunks = <<>>
  /\ signals = <<>>
  /\ spawnError' = TRUE
  /\ UNCHANGED << input, workspaceRoot, mirror, shellPc, child, spawnCount, signals,
                  timedOut, timeoutHandle, graceHandle, chunks, stdoutState,
                  stderrState, mirrorCalls, shellResult, shellError >>
  /\ UNCHANGED notShell

\* Variant of TimeoutFires: the expiry is not recorded.
TimeoutFiresUnrecorded ==
  /\ shellPc = "running"
  /\ timeoutHandle = "pending"
  /\ timeoutHandle' = "fired"
  /\ IF child.state = "running" /\ ~spawnError
       THEN /\ signals' = Append(signals, "SIGTERM")
            /\ child' = [child EXCEPT !.killed = TRUE]
       ELSE UNCHANGED << signals, child >>
  /\ graceHandle' = "pending"
  /\ UNCHANGED << input, workspaceRoot, mirror, shellPc, spawnCount, timedOut,
                  spawnError, chunks, stdoutState, stderrState, mirrorCalls,
                  shellResult, shellError >>
  /\ UNCHANGED notShell

\* The timeout timer fires: SIGTERM is sent and the grace timer is set.  A
\* signal that was sent sets child.killed.
TimeoutFires ==
  /\ shellPc = "running"
  /\ timeoutHandle = "pending"
  /\ timeoutHandle' = "fired"
  /\ timedOut' = TRUE
  /\ IF child.state = "running" /\ ~spawnError
       THEN /\ signals' = Append(signals, "SIGTERM")
            /\ child' = [child EXCEPT !.killed = TRUE]
       ELSE UNCHANGED << signals, child >>
  /\ graceHandle' = "pending"
  /\ UNCHANGED << input, workspaceRoot, mirror, shellPc, spawnCount, spawnError,
                  chunks, stdoutState, stderrState, mirrorCalls, shellResult,
                  shellError >>
  /\ UNCHANGED notShell

\* The grace timer fires: SIGKILL is sent unless child.killed is set.
GraceFires ==
  /\ graceHandle = "pending"
  /\ graceHandle' = "fired"
  /\ IF ~child.killed /\ child.state = "running" /\ ~spawnError
       THEN /\ signals' = Append(signals, "SIGKILL")
            /\ child' = [child EXCEPT !.killed = TRUE]
       ELSE UNCHANGED << signals, child >>
  /\ UNCHANGED << input, workspaceRoot, mirror, shellPc, spawnCount, timedOut,
                  timeoutHandle, spawnError, chunks, stdoutState, stderrState,
                  mirrorCalls, shellResult, shellError >>
  /\ UNCHANGED notShell

\* Ways the child can end: (code, signal) of its close event; code -1 stands
\* for null.  A child ends by itself if it is one that does, with a status
\* of its own once SIGTERM reached it and it does not ignore it, or by the
\* signal delivered.
Closings ==
  (IF child.exitsByItself THEN { <<0, "">>, <<1, "">> } ELSE {})
    \cup (IF InSeq("SIGTERM", signals) /\ ~child.ignoresSigterm
            THEN { <<-1, "SIGTERM">>, <<0, "">>, <<1, "">> } ELSE {})
    \cup (IF InSeq("SIGKILL", signals) THEN { <<-1, "SIGKILL">> } ELSE {})

\* The close event of a shell that could not be spawned: the error number.
FailedSpawnClosings == { <<-2, "">> }

\* exitCode of the close handler (lines 257-262); the code of a spawn error
\* is a string such as "ENOENT".
ExitCodeOf(code, failed) ==
  IF failed THEN 1 ELSE IF code = -1 THEN 0 ELSE code

\* child emits "close": the timer is cleared, the result is built, the
\* observer's onExit is called and the promise resolves.
ChildClose ==
  /\ shellPc = "running"
  /\ child.state = "running"
  /\ \E closing \in (IF spawnError THEN FailedSpawnClosings ELSE Closings) :
       LET stdoutTrunc == asFinalText(stdoutState, MaxOutputChars)
           stderrTrunc == asFinalText(stderrState, MaxOutputChars)
           built ==
             [ exit_code |-> ExitCodeOf(closing[1], spawnError),
               signal |-> closing[2],
               timed_out |-> timedOut,
               cwd |-> resolveCwd(input.cwd, workspaceRoot).normalized,
               max_output_chars |-> MaxOutputChars,
               stdout |-> stdoutTrunc.text,
               stderr |-> stderrTrunc.text,
               stdout_truncated |-> stdoutTrunc.truncated,
               stderr_truncated |-> stderrTrunc.truncated ]
           exited == safeMirrorCall(mirrorCalls, "onExit")
       IN  /\ child' = [child EXCEPT !.state = "exited", !.code = closing[1],
                                     !.signal = closing[2]]
           /\ mirrorCalls' = exited.log
           /\ IF exited.threw
                THEN /\ shellPc' = "crashed"
                     /\ UNCHANGED shellResult
                ELSE /\ shellPc' = "resolved"
                     /\ shellResult' = built
  /\ timeoutHandle' = IF timeoutHandle = "pending" THEN "cleared" ELSE timeoutHandle
  /\ UNCHANGED << input, workspaceRoot, mirror, spawnCount, signals, timedOut,
                  graceHandle, spawnError, chunks, stdoutState, stderrState,
                  shellError >>
  /\ UNCHANGED notShell

----------------------------------------------------------------------------
(* The two entries of a prompt: _sendPrompt of the session view              *)
(* (src/src/session-view-provider.js) and askModel (src/src/extension.js)    *)

\* Settings as the user may have stored them; "" is an unset setting.
BaseUrlSettings ==
  { "", "   ", "/", "http://localhost:1234/v1", "http://localhost:1234/v1/" }
ModelSettings == { "", "   ", "qwen" }
Settings ==
  [ baseUrl : BaseUrlSettings, model : ModelSettings,
    chatEndpointMode : {"openai-compat", "lmstudio-native-stream"},
    mcpEnabled : BOOLEAN ]

\* text.replace(/\/+$/, "")
StripTrailingSlashes(text) ==
  CASE text = "/" -> ""
    [] text = "http://localhost:1234/v1/" -> "http://localhost:1234/v1"
    [] OTHER -> text

normalizeBaseUrl(raw) == StripTrailingSlashes(Trim(raw))

\* getConfig(): the fields a prompt depends on.
getConfig(stored) ==
  [ baseUrl |-> normalizeBaseUrl(stored.baseUrl),
    model |-> Trim(stored.model),
    chatEndpointMode |-> stored.chatEndpointMode,
    mcpEnabled |-> stored.mcpEnabled ]

\* Variant of ConfigurationError: nothing is required of the configuration.
ConfigurationErrorNever(cfg) == ""

\* The error of the checks on the configuration; "" if they pass.
ConfigurationError(cfg) ==
  IF cfg.baseUrl = "" THEN "joshgpt.baseUrl is empty."
  ELSE IF cfg.model = "" THEN "joshgpt.model is empty."
  ELSE ""

\* Requests runChatWithOptionalMcp may send, given the mode.
RequestsOf(cfg) ==
  IF cfg.chatEndpointMode = "lmstudio-native-stream"
    THEN { "POST /api/v1/chat" }
    ELSE { "POST /chat/completions" }
           \cup (IF cfg.mcpEnabled THEN { "POST mcp" } ELSE {})

\* _sendPrompt(prompt) up to the call of runChatWithOptionalMcp, or through
\* its catch and finally clauses when a check throws.
SendPrompt ==
  /\ entry = "view"
  /\ promptPc = "idle"
  /\ ~busy
  /\ LET error == ConfigurationError(getConfig(settings))
     IN  IF error # ""
           THEN /\ sessionLog' = sessionLog \o << "user", "assistant" >>
                /\ promptError' = error
                /\ busy' = FALSE
                /\ promptPc' = "failed"
           ELSE /\ sessionLog' = Append(sessionLog, "user")
                /\ busy' = TRUE
                /\ promptPc' = "running"
                /\ UNCHANGED promptError
  /\ UNCHANGED << entry, settings, network >>
  /\ UNCHANGED notPrompt

\* askModel(output) up to the call of runChatWithOptionalMcp; userPrompt is
\* what the input box returned, "" when it was dismissed.
AskModel(userPrompt) ==
  /\ entry = "command"
  /\ promptPc = "idle"
  /\ LET error == ConfigurationError(getConfig(settings))
     IN  IF error # ""
           THEN /\ promptError' = error
                /\ promptPc' = "failed"
           ELSE /\ promptPc' = IF userPrompt = "" THEN "cancelled" ELSE "running"
                /\ UNCHANGED promptError
  /\ UNCHANGED << entry, settings, busy, network, sessionLog >>
  /\ UNCHANGED notPrompt

\* runChatWithOptionalMcp sends a request.
ChatRequest(req) ==
  /\ promptPc = "running"
  /\ Len(network) < MaxRequests
  /\ req \in RequestsOf(getConfig(settings))
  /\ network' = Append(network, req)
  /\ UNCHANGED << entry, settings, promptPc, busy, sessionLog, promptError >>
  /\ UNCHANGED notPrompt

\* runChatWithOptionalMcp returns; the answer is stored or shown.
ChatReturn ==
  /\ promptPc = "running"
  /\ network # <<>>
  /\ promptPc' = "answered"
  /\ sessionLog' = IF entry = "view" THEN Append(sessionLog, "assistant") ELSE sessionLog
  /\ busy' = FALSE
  /\ UNCHANGED << entry, settings, network, promptError >>
  /\ UNCHANGED notPrompt

\* runChatWithOptionalMcp throws; the error is stored and shown.
ChatThrow ==
  /\ promptPc = "running"
  /\ network # <<>>
  /\ promptPc' = "failed"
  /\ promptError' = "Chat completion failed (500): "
  /\ sessionLog' = IF entry = "view" THEN Append(sessionLog, "assistant") ELSE sessionLog
  /\ busy' = FALSE
  /\ UNCHANGED << entry, settings, network >>
  /\ UNCHANGED notPrompt

----------------------------------------------------------------------------

Next ==
  \/ RunChat
  \/ \E tools \in Listings : ListToolsReturn(tools)
  \/ ListToolsThrow
  \/ BeginLoop
  \/ \E resp \in Responses : CompletionReturn(resp)
  \/ CompletionThrow
  \/ CallTool
  \/ LocalShellReturn
  \/ LocalShellThrow
  \/ McpCallReturn
  \/ McpCallThrow
  \/ \E text \in Contents : StreamReturn(text)
  \/ StreamThrow

Spec == Init /\ [][Next]_vars

\* A turn that has not started, with one configuration.
TurnParked ==
  /\ TurnInit
  /\ config = [ chatEndpointMode |-> "openai-compat", mcpEnabled |-> TRUE,
                localShellEnabled |-> TRUE,
                mcpMaxToolRounds |-> [finite |-> FALSE, value |-> 0] ]

ClientInit ==
  /\ TurnParked
  /\ ShellParked
  /\ HelpersParked
  /\ PromptParked
  /\ TraceParked
  /\ StreamParked
  /\ ViewParked
  /\ baseUrl \in BaseUrls
  /\ ClientNew

ClientNext ==
  \/ listTools
  \/ callTool
  \/ \E resp \in HttpResponses : FetchResolve(resp)
  \/ FetchReject
  \/ AbortTimerFires
  \/ \E body \in Bodies : BodyResolve(body)
  \/ BodyReject
  \/ Tick

\* One protocol client instance and the calls made on it, one after another.
ClientSpec == ClientInit /\ [][ClientNext]_vars

ShellInit ==
  /\ TurnParked
  /\ ClientParked
  /\ HelpersParked
  /\ PromptParked
  /\ TraceParked
  /\ StreamParked
  /\ ViewParked
  /\ input \in [command : Commands, cwd : Cwds, max_output_chars : OutputCaps]
  /\ workspaceRoot \in WorkspaceRoots
  /\ mirror \in Mirrors
  /\ ShellNew

ShellNext ==
  \/ runLocalShellToolCall
  \/ \E stream \in {"stdout", "stderr"}, text \in ChunkTexts : OutputData(stream, text)
  \/ ChildError
  \/ TimeoutFires
  \/ GraceFires
  \/ ChildClose

\* One call of the local command executor.
ShellSpec == ShellInit /\ [][ShellNext]_vars

\* One call of the executor in which a pending timer fires, a child that can
\* end does end, and the call itself is made.
ShellLiveSpec ==
  /\ ShellSpec
  /\ WF_vars(runLocalShellToolCall)
  /\ WF_vars(TimeoutFires)
  /\ WF_vars(GraceFires)
  /\ WF_vars(ChildClose)

HelpersInit ==
  /\ TurnParked
  /\ ClientParked
  /\ ShellParked
  /\ PromptParked
  /\ TraceParked
  /\ StreamParked
  /\ ViewParked
  /\ limitsOut = NoLimitsOut
  /\ truncOut = <<>>
  /\ \/ /\ helperPc = "bounded"
        /\ limitsIn \in LimitsInputs
        /\ truncIn = NoTruncIn
     \/ /\ helperPc = "truncateText"
        /\ limitsIn = NoLimitsIn
        /\ truncIn \in [value : TruncTexts, maxChars : TruncCaps]

HelpersNext ==
  \/ Bounded
  \/ TruncateText
  \/ TruncateAgain

\* One application of a pure helper of the executor to one input.
HelpersSpec == HelpersInit /\ [][HelpersNext]_vars

PromptInit ==
  /\ TurnParked
  /\ ClientParked
  /\ ShellParked
  /\ HelpersParked
  /\ TraceParked
  /\ StreamParked
  /\ ViewParked
  /\ entry \in {"view", "command"}
  /\ settings \in Settings
  /\ PromptNew

PromptNext ==
  \/ SendPrompt
  \/ \E userPrompt \in {"", "prompt"} : AskModel(userPrompt)
  \/ \E req \in {"POST /chat/completions", "POST /api/v1/chat", "POST mcp"} : ChatRequest(req)
  \/ ChatReturn
  \/ ChatThrow

\* One prompt, from its entry to the answer or the error shown.
PromptSpec == PromptInit /\ [][PromptNext]_vars

----------------------------------------------------------------------------
(* Vocabulary of the properties *)

NonStreaming == config.chatEndpointMode # "lmstudio-native-stream"

IsToolCallMessage(m) == m.role = "assistant" /\ "tool_calls" \in DOMAIN m

\* Index in wm of the last assistant message that carries tool calls, 0 if none.
LastToolCallMessage(wm) ==
  IF \E i \in 1..Len(wm) : IsToolCallMessage(wm[i])
    THEN CHOOSE i \in 1..Len(wm) :
           /\ IsToolCallMessage(wm[i])
           /\ \A j \in (i + 1)..Len(wm) : ~IsToolCallMessage(wm[j])
    ELSE 0

\* Responses with tool calls received so far in the turn.
ToolCallResponses == Cardinality({i \in 1..Len(workingMessages) : IsToolCallMessage(workingMessages[i])})

TypeErrorNullId == "TypeError: Cannot read properties of null (reading 'id')"

----------------------------------------------------------------------------
(* C1: a turn sends at most maxRounds completion requests, and if each of    *)
(* the maxRounds responses carries tool calls the turn returns the advisory  *)
(* text with rounds = maxRounds and usedTools = TRUE.                        *)
C1_RoundBudget ==
  /\ requests * Denom <= MaxRoundsOf(config.mcpMaxToolRounds)
  /\ (/\ NonStreaming
      /\ pc \in {"done", "thrown"}
      /\ ToolCallResponses * Denom >= MaxRoundsOf(config.mcpMaxToolRounds))
       => (/\ pc = "done"
           /\ result = [ text |-> AdvisoryText,
                         usedTools |-> TRUE,
                         rounds |-> MaxRoundsOf(config.mcpMaxToolRounds) ])

(* C2: a response with zero tool-call requests ends the turn in its round:   *)
(* the turn returns that response's text with rounds equal to the number of  *)
(* requests sent, the working conversation is what the last request carried, *)
(* no tool is executed and no further request is sent after it.              *)
C2_EmptyResponseIsTerminal ==
  /\ pc \in {"toolLoop", "localShell", "mcpCall"} => Len(response.toolCalls) > 0
  /\ (pc = "completion" /\ requests > 1) => Len(response.toolCalls) > 0
  /\ (pc = "done" /\ NonStreaming /\ Len(response.toolCalls) = 0)
       => /\ result.text = response.text
          /\ result.rounds = requests * Denom
          /\ requests = round + 1
          /\ workingMessages = request.messages
          /\ (requests = 1 => result.rounds = 1 * Denom /\ ~result.usedTools)

C2_Witness ==
  /\ pc = "done"
  /\ Len(response.toolCalls) = 0
  /\ requests = 2
  /\ result.text = "The answer."
  /\ Len(request.tools) > 0

\* The tool messages that follow the last assistant message with tool calls.
RoundToolMessages(wm) ==
  LET a == LastToolCallMessage(wm) IN SubSeq(wm, a + 1, Len(wm))

\* msgs answers, in order, the first Len(msgs) entries of calls.
AnswersInOrder(msgs, calls) ==
  /\ Len(msgs) <= Len(calls)
  /\ \A k \in 1..Len(msgs) :
       /\ msgs[k].role = "tool"
       /\ ~calls[k].null
       /\ msgs[k].tool_call_id = calls[k].id
       /\ msgs[k].name = calls[k].function.name

(* C3: while the k-th tool call of a round is about to start or is executing, *)
(* the results of exactly the k-1 calls before it are appended, in order;     *)
(* and a completion request after the first carries one result per call of    *)
(* the round before it.                                                       *)
C3_SequentialToolCalls ==
  /\ pc \in {"toolLoop", "localShell", "mcpCall"}
       => /\ Len(RoundToolMessages(workingMessages)) = toolIdx - 1
          /\ AnswersInOrder(RoundToolMessages(workingMessages), response.toolCalls)
  /\ (pc = "completion" /\ requests > 1)
       => /\ Len(RoundToolMessages(request.messages)) = Len(response.toolCalls)
          /\ AnswersInOrder(RoundToolMessages(request.messages), response.toolCalls)
          /\ request.messages[LastToolCallMessage(request.messages)].tool_calls
               = response.toolCalls

C3_Witness ==
  /\ pc = "mcpCall"
  /\ toolIdx = 2
  /\ Len(RoundToolMessages(workingMessages)) = 1
  /\ response.toolCalls[1].function.name = LOCAL_SHELL_TOOL_NAME

IsErrorText(text) ==
  text \in { "MCP tool call failed: MCP client unavailable for non-local tool.",
             "MCP tool call failed: MCP request timed out after 15000ms.",
             "Local shell tool failed: run_local_shell_command requires a non-empty 'command'." }

(* C4: when the execution of a tool-call request fails (local validation     *)
(* rejected, gateway error, no gateway client), the step that sees the       *)
(* failure appends one tool message for that request whose content is an     *)
(* error text, and the loop goes on to the next call, the next request or    *)
(* the round-limit result; it does not throw.                                *)
C4_ToolFailureRecovered ==
  [][ (/\ pc \in {"toolLoop", "localShell", "mcpCall"}
       /\ toolOutcome' = "rejected"
       /\ ~toolCall.null)
        => (/\ pc' \in {"toolLoop", "completion", "done"}
            /\ thrown' = ""
            /\ Len(workingMessages') = Len(workingMessages) + 1
            /\ LET m == workingMessages'[Len(workingMessages')]
               IN  /\ m.role = "tool"
                   /\ m.tool_call_id = toolCall.id
                   /\ IsErrorText(m.content)
            /\ (pc' = "toolLoop" <=> toolIdx < Len(response.toolCalls))) ]_vars

C4_Witness ==
  /\ toolOutcome = "rejected"
  /\ pc = "toolLoop"
  /\ toolIdx = 2
  /\ workingMessages[Len(workingMessages)].content
       = "Local shell tool failed: run_local_shell_command requires a non-empty 'command'."

(* C5: with the local shell tool enabled, every completion request of a      *)
(* non-streaming turn advertises run_local_shell_command, whatever the       *)
(* tool listing did.                                                         *)
C5_LocalToolAlwaysAdvertised ==
  (NonStreaming /\ config.localShellEnabled /\ requests >= 1)
    => InSeq(LOCAL_SHELL_TOOL_NAME, ToolNames(request.tools))

(* C6: once the tool listing has failed, remote tooling is marked disabled,  *)
(* the trace holds the mcp event of the failure, the first completion        *)
(* request is sent as soon as the setup ends, and an error the turn throws   *)
(* later is not the listing error.                                           *)
C6_ListingFailureRecovered ==
  listOutcome = "threw"
    => /\ ~mcpEnabled
       /\ InSeq(Ev("mcp", "MCP disabled for this turn."), trace)
       /\ pc # "setup" => requests >= 1
       /\ pc = "thrown" => thrown \in {"Chat completion failed", TypeErrorNullId}

C6_Witness ==
  /\ listOutcome = "threw"
  /\ pc = "completion"
  /\ requests = 1

\* The descriptors of a listing that the model is to see: named, with an
\* input schema, and not one of the two execution proxies.
IsUsable(tool) ==
  /\ tool.name # ""
  /\ tool.inputSchema # ""
  /\ tool.name \notin {"run_host_command", "run_container_command"}

RECURSIVE UsableOf(_)
UsableOf(listing) ==
  IF listing = <<>> THEN <<>>
  ELSE LET rest == UsableOf(Tail(listing))
       IN  IF IsUsable(Head(listing)) THEN <<Head(listing)>> \o rest ELSE rest

\* Names and schemas of a sequence of descriptors / of tool schemas.
DescriptorFaces(ds) == [i \in 1..Len(ds) |-> <<ds[i].name, ds[i].inputSchema>>]
SchemaFaces(tools) ==
  [i \in 1..Len(tools) |-> <<tools[i].function.name, tools[i].function.parameters>>]

(* C7: no completion request carries a schema named run_host_command or      *)
(* run_container_command, and the first request after a listing carries,     *)
(* after the local tool if enabled, exactly the usable descriptors of the    *)
(* listing, in listing order.                                                *)
C7_ExcludedNamesNeverExposed ==
  /\ [](\A i \in 1..Len(request.tools) :
          request.tools[i].function.name \notin {"run_host_command", "run_container_command"})
  /\ [][ (pc = "setup" /\ listOutcome = "returned")
           => SchemaFaces(request'.tools)
                = SchemaFaces(localTools) \o DescriptorFaces(UsableOf(mcpTools)) ]_vars

C7_Witness ==
  /\ pc = "setup"
  /\ listOutcome = "returned"
  /\ Len(mcpTools) = 2
  /\ mcpTools[1].name = "run_host_command"
  /\ mcpTools[2].name = "list_files"
  /\ InSeq("list_files", ToolNames(openAiTools))

(* C8: with local and remote tooling enabled and a listing without usable    *)
(* descriptors, the first request advertises exactly run_local_shell_command *)
(* with tool_choice auto, and every later request of the turn advertises     *)
(* what the first did.                                                       *)
C8_LocalFallback ==
  /\ [][ (/\ pc = "setup"
          /\ listOutcome = "returned"
          /\ config.localShellEnabled
          /\ UsableOf(mcpTools) = <<>>)
           => (/\ pc' = "completion"
               /\ ToolNames(request'.tools) = <<LOCAL_SHELL_TOOL_NAME>>
               /\ request'.tool_choice = "auto") ]_vars
  /\ [][ requests >= 1
           => (request'.tools = request.tools /\ request'.tool_choice = request.tool_choice) ]_vars

C8_Witness ==
  /\ pc = "setup"
  /\ listOutcome = "returned"
  /\ config.localShellEnabled
  /\ Len(mcpTools) = 1
  /\ mcpTools[1].name = "run_host_command"
  /\ ToolNames(openAiTools) = <<LOCAL_SHELL_TOOL_NAME>>

\* The trace says remote tooling is disabled for the turn.
TraceFlagsRemoteDisabled ==
  \E i \in 1..Len(trace) :
    /\ trace[i].type = "mcp"
    /\ trace[i].summary \in { "MCP disabled for this turn.",
                              "MCP connected but no tools were returned." }

EmptyListingWithLocalTool ==
  /\ pc = "setup"
  /\ listOutcome = "returned"
  /\ mcpTools = <<>>
  /\ config.localShellEnabled

(* C9 as stated: after an empty listing with the local tool enabled the      *)
(* exposed tools are exactly run_local_shell_command and the trace flags     *)
(* remote tooling as disabled.                                               *)
C9_Original ==
  EmptyListingWithLocalTool
    => /\ ToolNames(openAiTools) = <<LOCAL_SHELL_TOOL_NAME>>
       /\ TraceFlagsRemoteDisabled

(* C9 amended: after an empty listing with the local tool enabled the        *)
(* exposed tools are exactly run_local_shell_command, the last trace event   *)
(* is the mcp event "MCP connected; execution tools excluded; local shell    *)
(* tool active.", and remote tooling stays enabled: nothing in the trace     *)
(* flags it as disabled.                                                     *)
C9_EmptyListingKeepsRemoteEnabled ==
  EmptyListingWithLocalTool
    => /\ ToolNames(openAiTools) = <<LOCAL_SHELL_TOOL_NAME>>
       /\ trace[Len(trace)]
            = Ev("mcp", "MCP connected; execution tools excluded; local shell tool active.")
       /\ mcpEnabled
       /\ ~TraceFlagsRemoteDisabled

C9_Witness ==
  /\ EmptyListingWithLocalTool
  /\ mcpClient = "client"
  /\ Len(trace) = 2

\* Every tool message of wm answers, by position, a request of the most recent
\* assistant message before it, and only tool messages stand in between.
ToolMessagesMatch(wm) ==
  \A i \in 1..Len(wm) :
    wm[i].role = "tool"
      => LET a == LastToolCallMessage(SubSeq(wm, 1, i))
         IN  /\ a > 0
             /\ AnswersInOrder(SubSeq(wm, a + 1, i), wm[a].tool_calls)

\* Every assistant message of wm with tool calls is followed by one tool
\* message per request.
AllRequestsAnswered(wm) ==
  \A a \in 1..Len(wm) :
    IsToolCallMessage(wm[a])
      => /\ a + Len(wm[a].tool_calls) <= Len(wm)
         /\ AnswersInOrder(SubSeq(wm, a + 1, a + Len(wm[a].tool_calls)), wm[a].tool_calls)
         /\ (a + Len(wm[a].tool_calls) < Len(wm)
               => wm[a + Len(wm[a].tool_calls) + 1].role = "assistant")

IsJsonObject(raw) ==
  /\ raw.typeof = "string"
  /\ JSONParse(raw.text).ok
  /\ JSONParse(raw.text).kind = "object"

(* C11: whenever a tool call whose argument payload is not a JSON object     *)
(* (non-string, blank, malformed, or JSON of another kind) is being          *)
(* executed, the arguments handed to the executor are the empty object.      *)
C11_BadPayloadRunsWithEmptyObject ==
  (/\ pc \in {"localShell", "mcpCall"}
   /\ ~toolCall.null
   /\ ~IsJsonObject(toolCall.function.arguments))
    => parseToolArguments(RawArgsOf(toolCall)) = EmptyObject

\* Every entry of the list is falsy (null); true of the empty list.
AllFalsy(calls) == \A i \in 1..Len(calls) : calls[i].null

(* C12: a response whose tool-call list is empty or holds only null entries  *)
(* is terminal: no tool execution starts for it, the turn does not throw     *)
(* because of it, and the turn returns that response's text.                 *)
C12_FalsyListIsTerminal ==
  (NonStreaming /\ AllFalsy(response.toolCalls))
    => /\ pc \notin {"toolLoop", "localShell", "mcpCall"}
       /\ pc = "thrown" => thrown = "Chat completion failed"
       /\ pc = "done" => result.text = response.text

Streaming == config.chatEndpointMode = "lmstudio-native-stream"

BypassNote == Ev("mcp", "MCP tool-calling is currently bypassed in lmstudio-native-stream mode.")

(* C13: in native streaming mode the turn creates no gateway client and      *)
(* awaits no tools/list or tools/call, starts no local command and sends no  *)
(* chat-completions request: it only awaits the stream, and it returns       *)
(* usedTools = FALSE and rounds = 1.                                         *)
C13_StreamingBypassesTools ==
  Streaming
    => /\ pc \in {"init", "stream", "done", "thrown"}
       /\ mcpClient = "null"
       /\ listOutcome = "none"
       /\ toolOutcome = "none"
       /\ requests = 0
       /\ openAiTools = <<>>
       /\ pc = "thrown" => thrown = "Native stream chat failed"
       /\ pc = "done" => (~result.usedTools /\ result.rounds = 1 * Denom)

C13_Witness ==
  /\ Streaming
  /\ config.mcpEnabled
  /\ config.localShellEnabled
  /\ pc = "done"
  /\ result.text = "The answer."

(* C14: in native streaming mode with the remote gateway or the local shell  *)
(* tool enabled in the configuration, the trace holds the note that tool     *)
(* calling is bypassed as soon as the turn has started.                      *)
C14_BypassNoteWhenToolsEnabled ==
  (Streaming /\ pc # "init" /\ (config.mcpEnabled \/ config.localShellEnabled))
    => InSeq(BypassNote, trace)

----------------------------------------------------------------------------
(* Vocabulary of the protocol client's properties *)

Last(s) == s[Len(s)]

\* This step hands one more request to fetch.
Sends == sent' # sent

\* This step is a call of listTools or callTool.
CallStarts == clientPc = "idle" /\ callCount' = callCount + 1

Handshake == "initialize"

(* C15: a request other than initialize is never handed to the transport     *)
(* without a session id; every request carries in its session header the     *)
(* session id the client holds when it sends it; and a call made on a client *)
(* that is past its handshake and holds no session id throws "MCP session is *)
(* not initialized." without sending anything.                               *)
C15_SessionHeaderDiscipline ==
  /\ [](\A i \in 1..Len(sent) : sent[i].method # Handshake => sent[i].session # "")
  /\ [][ Sends => /\ sent' = Append(sent, Last(sent'))
                  /\ Last(sent').session = sessionId' ]_vars
  /\ [][ (CallStarts /\ initialized /\ sessionId = "")
           => /\ sent' = sent
              /\ clientPc' = "idle"
              /\ callOutcome' = "threw"
              /\ callError' = "MCP session is not initialized." ]_vars

C15_Witness ==
  /\ callCount = 2
  /\ operation = "callTool"
  /\ initialized
  /\ sessionId = ""
  /\ sent = << [method |-> "initialize", session |-> ""] >>
  /\ callError = "MCP session is not initialized."

(* C16: in every state of a client instance, initialized implies that a      *)
(* session id is held.                                                       *)
C16_InitializedHoldsSession == initialized => sessionId # ""

\* The initialize request of this instance has been answered without error.
HandshakeSucceeded ==
  initialized \/ (lastPost.method = Handshake /\ lastPost.error = "")

(* C17: once the initialize request has succeeded the client stays past its  *)
(* handshake and sends no initialize request again; an initialize request    *)
(* that failed leaves the client uninitialized with the call rejected; and   *)
(* a call made while no handshake has succeeded starts by sending the        *)
(* initialize request.                                                       *)
C17_HandshakeOnlyUntilSuccess ==
  /\ [][ HandshakeSucceeded
           => /\ HandshakeSucceeded'
              /\ ~(Sends /\ Last(sent').method = Handshake) ]_vars
  /\ []((lastPost.method = Handshake /\ lastPost.error # "") => ~initialized)
  /\ [][ (lastPost' # lastPost /\ lastPost'.method = Handshake /\ lastPost'.error # "")
           => /\ clientPc' = "idle"
              /\ callOutcome' = "threw"
              /\ callError' = lastPost'.error ]_vars
  /\ [][ (CallStarts /\ ~HandshakeSucceeded /\ baseUrl # "")
           => /\ Sends
              /\ Last(sent').method = Handshake ]_vars

C17_Witness ==
  /\ callCount = 2
  /\ initialized
  /\ Len(sent) = 4
  /\ sent[1].method = "initialize"
  /\ sent[2].method = "initialize"
  /\ sent[3].method = "notifications/initialized"
  /\ sent[4].method = "tools/call"

(* C18: a request never stays in flight past its deadline: while the client  *)
(* waits for the response or for its body, no more than the configured       *)
(* timeout has elapsed since the request was sent.                           *)
C18_HardDeadline ==
  clientPc \in {"fetch", "body"} => elapsed <= TimeoutTicks

\* The _post that ended last read a response with a success status whose
\* payload carries an error member.
ServerErrorReceived ==
  /\ lastPost.response.ok
  /\ ParseMcpBody(lastPost.body).threw = ""
  /\ lastPost.body.error # "none"

ServerErrorText ==
  "MCP error: " \o (IF lastPost.body.message # "" THEN lastPost.body.message
                    ELSE "Unknown MCP error")

(* C19: a _post that reads a success response whose payload carries an       *)
(* error member throws "MCP error: " followed by the server's message (or by *)
(* "Unknown MCP error" when there is none); no call returns on such a        *)
(* response, and when the request was initialize, tools/list or tools/call   *)
(* the call in progress is rejected with that error.                         *)
C19_ServerErrorThrown ==
  ServerErrorReceived
    => /\ lastPost.error = ServerErrorText
       /\ callOutcome # "returned"
       /\ lastPost.method # "notifications/initialized"
            => /\ clientPc = "idle"
               /\ callOutcome = "threw"
               /\ callError = ServerErrorText

C19_Witness ==
  /\ ServerErrorReceived
  /\ lastPost.method = "tools/call"
  /\ lastPost.body.format = "sse"
  /\ callError = "MCP error: Unknown tool"
  /\ sessionId = "session-2"

----------------------------------------------------------------------------
(* Vocabulary of the local executor's properties *)

\* The input fails the executor's validation.
CommandEmpty == Trim(input.command) = ""
CwdInvalid == resolveCwd(input.cwd, workspaceRoot).normalized \notin Directories

(* C20: a call whose command is empty after trimming, or whose working       *)
(* directory does not resolve to an existing directory, is rejected with the *)
(* validation error of that defect; no subprocess is spawned, no timer is    *)
(* set and no observer method is called for it.                              *)
C20_ValidationBeforeSpawn ==
  ((CommandEmpty \/ CwdInvalid) /\ shellPc # "idle")
    => /\ shellPc = "rejected"
       /\ shellError =
            (IF CommandEmpty
               THEN "run_local_shell_command requires a non-empty 'command'."
               ELSE "Working directory does not exist or is not a directory: "
                      \o resolveCwd(input.cwd, workspaceRoot).normalized)
       /\ spawnCount = 0
       /\ child = NoChild
       /\ timeoutHandle = "none"
       /\ mirrorCalls = <<>>

C20_Witness ==
  /\ shellPc = "rejected"
  /\ input.command = " ls "
  /\ input.cwd = "README.md"
  /\ workspaceRoot = "/workspace"
  /\ mirror = "throwing"
  /\ shellError = "Working directory does not exist or is not a directory: /workspace/README.md"

----------------------------------------------------------------------------
(* Limits and truncation of the executor *)

LimitsComputed == helperPc = "returned" /\ limitsOut # NoLimitsOut

IsFiniteNumber(value) == value.typeof = "number" /\ value.finite
IsInteger(value) == IsFiniteNumber(value) /\ value.twice % Denom = 0

Clamp(v, lo, hi) == IF v < lo THEN lo ELSE IF v > hi THEN hi ELSE v

\* The configured values as runLocalShellToolCall receives them.
ConfiguredMaxTimeout == Defaulted(limitsIn.maxTimeoutSeconds, 300)
ConfiguredMaxCap == Defaulted(limitsIn.maxOutputCharsCap, 50000)
ConfiguredDefaultTimeout == Defaulted(limitsIn.defaultTimeoutSeconds, 30)
ConfiguredDefaultCap == Defaulted(limitsIn.defaultMaxOutputChars, 12000)

\* The upper ends the code uses: the configured maximum as an integer, never
\* below the lower end; 300 and 50000 stand in for a maximum that is no number.
EffectiveMaxTimeout == MathMax(1, asInt(ConfiguredMaxTimeout, 300))
EffectiveMaxCap == MathMax(256, asInt(ConfiguredMaxCap, 50000))

\* C21 as stated: for every request and every configuration the effective
\* timeout lies in [1, configured max timeout] and the effective output cap in
\* [256, configured max cap]; an absent request yields the configured default
\* clamped into the range, and an in-range integer request is used unchanged.
C21_Original ==
  LimitsComputed =>
    /\ limitsOut.timeoutSeconds >= 1
    /\ IsFiniteNumber(ConfiguredMaxTimeout)
         => limitsOut.timeoutSeconds * Denom <= ConfiguredMaxTimeout.twice
    /\ limitsOut.maxOutputChars >= 256
    /\ IsFiniteNumber(ConfiguredMaxCap)
         => limitsOut.maxOutputChars * Denom <= ConfiguredMaxCap.twice
    /\ (limitsIn.timeout_seconds = Undefined /\ IsInteger(ConfiguredMaxTimeout))
         => limitsOut.timeoutSeconds
              = Clamp(asInt(ConfiguredDefaultTimeout, 30), 1,
                      ConfiguredMaxTimeout.twice \div Denom)
    /\ (limitsIn.max_output_chars = Undefined /\ IsInteger(ConfiguredMaxCap))
         => limitsOut.maxOutputChars
              = Clamp(asInt(ConfiguredDefaultCap, 12000), 256,
                      ConfiguredMaxCap.twice \div Denom)

\* C21, amended: the effective timeout lies in [1, M] and the effective output
\* cap in [256, N], where M is the configured max timeout as an integer raised
\* to at least 1 and N the configured max cap as an integer raised to at least
\* 256; an absent request yields the configured default clamped into that
\* range, and an integer request inside the range is used unchanged.
C21_LimitsClamped ==
  LimitsComputed =>
    /\ limitsOut.timeoutSeconds \in 1..EffectiveMaxTimeout
    /\ limitsOut.maxOutputChars \in 256..EffectiveMaxCap
    /\ limitsIn.timeout_seconds = Undefined
         => limitsOut.timeoutSeconds
              = Clamp(asInt(ConfiguredDefaultTimeout, 30), 1, EffectiveMaxTimeout)
    /\ limitsIn.max_output_chars = Undefined
         => limitsOut.maxOutputChars
              = Clamp(asInt(ConfiguredDefaultCap, 12000), 256, EffectiveMaxCap)
    /\ ( /\ IsInteger(limitsIn.timeout_seconds)
         /\ limitsIn.timeout_seconds.twice \div Denom \in 1..EffectiveMaxTimeout )
         => limitsOut.timeoutSeconds = limitsIn.timeout_seconds.twice \div Denom
    /\ ( /\ IsInteger(limitsIn.max_output_chars)
         /\ limitsIn.max_output_chars.twice \div Denom \in 256..EffectiveMaxCap )
         => limitsOut.maxOutputChars = limitsIn.max_output_chars.twice \div Denom

\* A request of 1000 seconds under a maximum of 10 and a request of 100
\* characters: both are clamped.
C21_Witness ==
  /\ LimitsComputed
  /\ limitsIn.timeout_seconds = Num(1000)
  /\ limitsIn.maxTimeoutSeconds = Num(10)
  /\ limitsIn.max_output_chars = Num(100)
  /\ limitsIn.maxOutputCharsCap = Num(2000)
  /\ limitsOut = [timeoutSeconds |-> 10, maxOutputChars |-> 256]

\* C22: truncating a text that is within the cap returns the text itself with
\* truncated = false, and truncating that result again changes nothing.
C22_TruncateWithinCapIsNoOp ==
  (Len(truncOut) >= 1 /\ Len(truncIn.value) <= truncIn.maxChars)
    => /\ truncOut[1] = [text |-> truncIn.value, truncated |-> FALSE]
       /\ Len(truncOut) = 2 => truncOut[2] = truncOut[1]

\* A text of exactly the cap's length has been truncated twice.
C22_Witness ==
  /\ helperPc = "reapplied"
  /\ truncIn = [value |-> X256, maxChars |-> 256]
  /\ truncOut = << [text |-> X256, truncated |-> FALSE],
                   [text |-> X256, truncated |-> FALSE] >>

----------------------------------------------------------------------------
(* Results of the executor *)

Resolved == shellPc = "resolved"

\* Characters the command wrote to a stream.
RECURSIVE WrittenTo(_, _)
WrittenTo(stream, cs) ==
  IF cs = <<>> THEN 0
  ELSE (IF Head(cs).stream = stream THEN Len(Head(cs).text) ELSE 0)
         + WrittenTo(stream, Tail(cs))

EndsWith(text, suffix) ==
  /\ Len(text) >= Len(suffix)
  /\ SubSeq(text, Len(text) - Len(suffix) + 1, Len(text)) = suffix

\* What the result says of a stream.
Returned(stream) ==
  IF stream = "stdout"
    THEN [text |-> shellResult.stdout, truncated |-> shellResult.stdout_truncated]
    ELSE [text |-> shellResult.stderr, truncated |-> shellResult.stderr_truncated]

\* C23: for each of stdout and stderr the returned text is no longer than the
\* effective cap, its truncated flag is true exactly when the command wrote
\* more characters to that stream than the cap, and a text flagged truncated
\* ends with the truncation marker.
C23_StreamsTruncatedAtCap ==
  Resolved =>
    \A stream \in {"stdout", "stderr"} :
      /\ Len(Returned(stream).text) <= shellResult.max_output_chars
      /\ Returned(stream).truncated
           <=> WrittenTo(stream, chunks) > shellResult.max_output_chars
      /\ Returned(stream).truncated => EndsWith(Returned(stream).text, TruncationSuffix)

\* C24: once the timeout has expired SIGTERM has been sent to the command, and
\* a command that is still running when the grace delay has passed has been
\* sent SIGKILL.
C24_TermThenKill ==
  /\ (timeoutHandle = "fired" /\ ~spawnError) => InSeq("SIGTERM", signals)
  /\ (graceHandle = "fired" /\ child.state = "running" /\ ~spawnError)
       => InSeq("SIGKILL", signals)

\* C25: a call that passed validation is never rejected, it eventually
\* resolves, and what it resolved with does not change afterwards.
C25_AlwaysResolves ==
  /\ [](spawnCount > 0 => shellPc \in {"running", "resolved"})
  /\ (shellPc = "running") ~> Resolved
  /\ [][Resolved => UNCHANGED << shellPc, shellResult >>]_vars

\* C26: exit_code is the status of a command that exited normally, and it is
\* not 0 for a command that ended by a signal or was never spawned.
C26_ExitCodeZeroOnlyOnSuccess ==
  Resolved =>
    /\ (~spawnError /\ child.code >= 0) => shellResult.exit_code = child.code
    /\ (spawnError \/ child.code < 0) => shellResult.exit_code # 0

\* The timeout expired while the command was running: SIGTERM was sent to it.
ExpiredWhileRunning == InSeq("SIGTERM", signals)

ObserverLog ==
  IF mirror = "none" THEN <<>>
  ELSE << "onStart" >>
         \o [ i \in 1..Len(chunks) |->
                IF chunks[i].stream = "stdout" THEN "onStdout" ELSE "onStderr" ]
         \o (IF Resolved THEN << "onExit" >> ELSE <<>>)

\* The result as the events of the command determine it.
ResultOfEvents ==
  [ exit_code |-> IF spawnError THEN 1 ELSE IF child.code >= 0 THEN child.code ELSE 0,
    signal |-> child.signal,
    timed_out |-> timedOut,
    cwd |-> resolveCwd(input.cwd, workspaceRoot).normalized,
    max_output_chars |-> MaxOutputChars,
    stdout |-> stdoutState.text,
    stderr |-> stderrState.text,
    stdout_truncated |-> stdoutState.truncated,
    stderr_truncated |-> stderrState.truncated ]

\* C28: with any observer, one that throws on every call included, a call that
\* passed validation is not rejected and the executor does not fail; it
\* resolves with the result the command's events determine, the same as
\* without an observer; and the observer was called with start first, then
\* once per chunk in order, then exit once, after the last chunk.
C28_ObserverCannotDisrupt ==
  /\ shellPc # "crashed"
  /\ (~CommandEmpty /\ ~CwdInvalid) => shellPc # "rejected"
  /\ spawnCount > 0 => mirrorCalls = ObserverLog
  /\ Resolved => shellResult = ResultOfEvents

\* A throwing observer saw a whole execution with a chunk on each stream.
C28_Witness ==
  /\ Resolved
  /\ mirror = "throwing"
  /\ mirrorCalls = << "onStart", "onStdout", "onStderr", "onExit" >>
  /\ shellResult.stdout = X256
  /\ shellResult.stderr = X1

----------------------------------------------------------------------------
(* Failures of a turn *)

ConfigurationMissing ==
  normalizeBaseUrl(settings.baseUrl) = "" \/ Trim(settings.model) = ""

\* C29: when the base URL or the model is empty, the prompt fails with the
\* configuration error of the missing setting and no request (completion,
\* stream or gateway) is ever sent for it.
C29_ConfigErrorBeforeNetwork ==
  ConfigurationMissing =>
    /\ network = <<>>
    /\ promptPc \in {"idle", "failed"}
    /\ promptPc = "failed"
         => promptError = (IF normalizeBaseUrl(settings.baseUrl) = ""
                             THEN "joshgpt.baseUrl is empty."
                             ELSE "joshgpt.model is empty.")

\* A prompt of the session view failed for a base URL that is only a slash.
C29_Witness ==
  /\ entry = "view"
  /\ settings.baseUrl = "/"
  /\ settings.model = "qwen"
  /\ promptPc = "failed"
  /\ promptError = "joshgpt.baseUrl is empty."
  /\ network = <<>>
  /\ sessionLog = << "user", "assistant" >>

\* Errors of a failed request: a completion request that failed or was
\* answered with a status other than 2xx, a failed stream, a failed gateway
\* call.
RequestFailures ==
  { "Chat completion failed", "Native stream chat failed",
    "MCP request timed out after 15000ms." }

\* C30: no failed request (listing, tool execution, completion in any round,
\* stream) ends the turn in an error thrown by the orchestration loop; the
\* turn goes on or returns a result with its trace.
C30_NoFailureAbortsTurn ==
  pc = "thrown" => thrown \notin RequestFailures

----------------------------------------------------------------------------
(* The trace events of a turn and their details, src/src/chat-runner.js *)

MaxTraceEvents == 2   \* events pushed on one trace array

StringSliceLimit == 600
JsonSliceLimit == 1200

X1280 == X256 \o X256 \o X256 \o X256 \o X256

StartsWith(text, prefix) ==
  /\ Len(text) >= Len(prefix)
  /\ SubSeq(text, 1, Len(prefix)) = prefix

\* Texts a tool argument, a tool result, an error message or a stream delta
\* may carry.
TraceTexts == { "", "pwd", X1280 }

\* event.data of a stream event: what parseMaybeJson returned, or the raw text;
\* json is the rendering JSON.stringify(data, null, 2) gives.
EventData ==
  { [kind |-> "undefined", text |-> "", json |-> ""],
    [kind |-> "string", text |-> X1280, json |-> "\"" \o X1280 \o "\""],
    [kind |-> "object", text |-> "", json |-> "{\n  \"note\": \"" \o X1280 \o "\"\n}"],
    [kind |-> "object", text |-> "", json |-> "{}"] }

StreamEventNames == { "reasoning.delta", "message.delta", "chat.end", "done" }

\* Events createNativeStreamingChat hands to onEvent.
StreamEvents == [event : StreamEventNames, deltaText : TraceTexts, data : EventData]

\* JSON.stringify(args, null, 2) of the arguments { command }.
StringifyArgs(command) == "{\n  \"command\": \"" \o command \o "\"\n}"

summarizeEventData(data) ==
  CASE data.kind \in {"null", "undefined"} -> ""
    [] data.kind = "string" -> Slice(data.text, StringSliceLimit)
    [] OTHER -> Slice(data.json, JsonSliceLimit)

\* The trace array after addTrace(type, summary, details).
addTrace(tr, type, details) == Append(tr, [type |-> type, details |-> details])

\* The type onEvent gives to the event named name.
StreamTraceType(name) ==
  IF StartsWith(name, "reasoning.") THEN "reasoning"
  ELSE IF name = "done" \/ EndsWith(name, ".done") \/ EndsWith(name, ".completed")
    THEN "stream-end"
    ELSE "stream"

\* addTrace("start", ...), and the events that carry no details.
TraceStart ==
  /\ Len(traceEvents) < MaxTraceEvents
  /\ traceEvents' = addTrace(traceEvents, "start", "")
  /\ UNCHANGED notTrace

\* addTrace("mcp", "Tools loaded (n).", names joined), or
\* addTrace("mcp", "MCP disabled for this turn.", msg).
TraceMcp(text) ==
  /\ Len(traceEvents) < MaxTraceEvents
  /\ traceEvents' = addTrace(traceEvents, "mcp", text)
  /\ UNCHANGED notTrace

\* addTrace("round", ..., `message_count=${workingMessages.length}`)
TraceRound ==
  /\ Len(traceEvents) < MaxTraceEvents
  /\ traceEvents' = addTrace(traceEvents, "round", "message_count=2")
  /\ UNCHANGED notTrace

\* addTrace("tool", "Calling tool: ...", JSON.stringify(args, null, 2))
TraceCallingTool(command) ==
  /\ Len(traceEvents) < MaxTraceEvents
  /\ traceEvents' = addTrace(traceEvents, "tool", StringifyArgs(command))
  /\ UNCHANGED notTrace

\* addTrace("tool", "Tool result: ...", toolResultText.slice(0, 1200))
TraceToolResult(toolResultText) ==
  /\ Len(traceEvents) < MaxTraceEvents
  /\ traceEvents' = addTrace(traceEvents, "tool", Slice(toolResultText, JsonSliceLimit))
  /\ UNCHANGED notTrace

\* addTrace("tool-error", "Tool failed: ...", msg)
TraceToolError(msg) ==
  /\ Len(traceEvents) < MaxTraceEvents
  /\ traceEvents' = addTrace(traceEvents, "tool-error", msg)
  /\ UNCHANGED notTrace

\* onEvent(event) of runNativeStreamingMode.
TraceStreamEvent(event) ==
  /\ Len(traceEvents) < MaxTraceEvents
  /\ LET details == IF event.deltaText # ""
                      THEN event.deltaText
                      ELSE summarizeEventData(event.data)
     IN  traceEvents' = addTrace(traceEvents, StreamTraceType(event.event), details)
  /\ UNCHANGED notTrace

\* addTrace("final", ...), with `events=${streamResult.events.length}` in
\* streaming mode.
TraceFinal ==
  /\ Len(traceEvents) < MaxTraceEvents
  /\ traceEvents' = addTrace(traceEvents, "final", "events=2")
  /\ UNCHANGED notTrace

\* addTrace("limit", ..., `max_rounds=${maxRounds}`)
TraceLimit ==
  /\ Len(traceEvents) < MaxTraceEvents
  /\ traceEvents' = addTrace(traceEvents, "limit", "max_rounds=4")
  /\ UNCHANGED notTrace

TraceInit ==
  /\ TurnParked
  /\ ClientParked
  /\ ShellParked
  /\ HelpersParked
  /\ PromptParked
  /\ StreamParked
  /\ ViewParked
  /\ traceEvents = <<>>

TraceNext ==
  \/ TraceStart
  \/ \E text \in TraceTexts : TraceMcp(text)
  \/ TraceRound
  \/ \E command \in TraceTexts : TraceCallingTool(command)
  \/ \E toolResultText \in TraceTexts : TraceToolResult(toolResultText)
  \/ \E msg \in TraceTexts : TraceToolError(msg)
  \/ \E event \in StreamEvents : TraceStreamEvent(event)
  \/ TraceFinal
  \/ TraceLimit

\* The events one turn pushes on its trace array, in any order.
TraceSpec == TraceInit /\ [][TraceNext]_vars

----------------------------------------------------------------------------
(* C31 *)

\* C31: the details of every trace event, whatever its type, are no longer
\* than the largest slice limit of the trace, whatever the size of the tool
\* arguments, tool results, error messages and stream deltas.
C31_TraceDetailsCapped ==
  \A i \in 1..Len(traceEvents) : Len(traceEvents[i].details) <= JsonSliceLimit

----------------------------------------------------------------------------
(* C32 *)

\* A turn in which the engine runs every step that can run and every awaited
\* listing, completion request and tool execution settles.
LiveSpec == Spec /\ WF_vars(Next)

\* The turn returned after a final or a limit event.
EndedFinalOrLimit ==
  /\ pc = "done"
  /\ trace # <<>>
  /\ Last(trace).type \in {"final", "limit"}

\* A completion request failed: its awaited call did not complete.
CompletionFailed == pc = "thrown" /\ thrown \in RequestFailures

\* C32: provided every completion request and every tool execution eventually
\* completes, a non-streaming turn eventually stops, its trace ending with
\* a final event or with a limit event.
C32_TurnEndsFinalOrLimit ==
  NonStreaming => <>(EndedFinalOrLimit \/ CompletionFailed)

----------------------------------------------------------------------------
(* C33 *)

IsPrefix(s, t) == Len(s) <= Len(t) /\ SubSeq(t, 1, Len(s)) = s

\* next is prev, then one assistant message with tool calls, then one tool
\* message for each of its calls, in order.
RoundAppended(prev, next) ==
  LET k == Len(next) - Len(prev) - 1
  IN  /\ k >= 1
      /\ IsPrefix(prev, next)
      /\ IsToolCallMessage(next[Len(prev) + 1])
      /\ Len(next[Len(prev) + 1].tool_calls) = k
      /\ \A j \in 1..k :
           /\ next[Len(prev) + 1 + j].role = "tool"
           /\ next[Len(prev) + 1 + j].tool_call_id = next[Len(prev) + 1].tool_calls[j].id

\* This step sends a completion request.
SendsRequest == requests' = requests + 1

\* C33: the working conversation only grows by appending; the message list of
\* each completion request is the list of the request before it, then one
\* assistant message, then one tool message per requested call; the first
\* request carries the caller's list, and the caller's list never changes.
C33_AppendOnly ==
  [][ /\ messages' = messages
      /\ IsPrefix(workingMessages, workingMessages')
      /\ SendsRequest => request'.messages = workingMessages'
      /\ (SendsRequest /\ requests = 0) => request'.messages = messages
      /\ (SendsRequest /\ requests > 0) => RoundAppended(request.messages, request'.messages)
    ]_vars

\* A second request was sent after a round of two tool calls.
C33_Witness ==
  /\ requests = 2
  /\ pc = "completion"
  /\ Len(request.messages) = Len(messages) + 3
  /\ request.messages[Len(messages) + 3].role = "tool"

----------------------------------------------------------------------------
(* C35 *)

\* The turn returned the model's final response.
EndedWithFinal ==
  /\ NonStreaming
  /\ pc = "done"
  /\ Last(trace).type = "final"

\* Tool calls run in the turn: each one left its tool message.
ToolCallsRun ==
  Cardinality({i \in 1..Len(workingMessages) : workingMessages[i].role = "tool"})

\* C35: when a non-streaming turn ends with a final response, usedTools is
\* true if and only if at least one tool call was run in the turn, and that
\* if and only if rounds > 1.
C35_UsedToolsIffToolCallRun ==
  EndedWithFinal =>
    /\ result.usedTools <=> ToolCallsRun >= 1
    /\ ToolCallsRun >= 1 <=> result.rounds > 1 * Denom

\* A final response in the second round, after one tool call.
C35_Witness ==
  /\ EndedWithFinal
  /\ result.usedTools
  /\ result.rounds = 2 * Denom
  /\ ToolCallsRun = 1

----------------------------------------------------------------------------
(* C36, C37 *)

\* The executor's result of a local command, as the turn stores it.
LocalShellResultText == "{\"tool\":\"run_local_shell_command\",\"exit_code\":0}"

\* A local command ran in the turn: the executor was awaited, or its result
\* was appended.
LocalCommandRan ==
  \/ pc = "localShell" /\ LocalShellAccepts(parseToolArguments(RawArgsOf(toolCall)))
  \/ \E i \in 1..Len(workingMessages) :
       /\ workingMessages[i].role = "tool"
       /\ workingMessages[i].content = LocalShellResultText

\* C36: when config.localShellEnabled is false no local command is run in the
\* turn, whatever tool names the responses request.
C36_DisabledLocalToolNeverRuns ==
  ~config.localShellEnabled => ~LocalCommandRan

\* Names of the tools exposed to the model in this turn.
ExposedNames == {openAiTools[i].function.name : i \in 1..Len(openAiTools)}

\* C37: tools/call is sent to the gateway only for a tool name exposed to the
\* model in this turn.
C37_GatewayCallsOnlyExposedTools ==
  pc = "mcpCall" => ToolNameOf(toolCall) \in ExposedNames

----------------------------------------------------------------------------
(* Native streaming, src/src/lmstudio-client.js *)

MaxFrames == 3   \* frames of one stream

\* String.prototype.toLowerCase over the event names of the model.
ToLowerCase(name) ==
  CASE name = "Chat.End" -> "chat.end"
    [] OTHER -> name

Includes(text, part) ==
  \E i \in 1..(Len(text) - Len(part) + 1) : SubSeq(text, i, i + Len(part) - 1) = part

RECURSIVE TrimStart(_)
TrimStart(text) ==
  IF Len(text) > 0 /\ SubSeq(text, 1, 1) = " "
    THEN TrimStart(SubSeq(text, 2, Len(text)))
    ELSE text

RECURSIVE TrimEnd(_)
TrimEnd(text) ==
  IF Len(text) > 0 /\ SubSeq(text, Len(text), Len(text)) = " "
    THEN TrimEnd(SubSeq(text, 1, Len(text) - 1))
    ELSE text

\* String.prototype.trim
TrimText(text) == TrimEnd(TrimStart(text))

FrameEventNames == { "message.delta", "chat.end", "Chat.End", "reasoning.delta" }

\* The data of a frame: dataRaw, whether parseMaybeJson gives an object, and
\* the member delta of that object ("" when absent).
FrameData ==
  { [dataRaw |-> "", isObject |-> FALSE, delta |-> ""],
    [dataRaw |-> "[DONE]", isObject |-> FALSE, delta |-> ""],
    [dataRaw |-> "plain", isObject |-> FALSE, delta |-> ""],
    [dataRaw |-> "{\"delta\":\" Hi\"}", isObject |-> TRUE, delta |-> " Hi"],
    [dataRaw |-> "{\"delta\":\"there \"}", isObject |-> TRUE, delta |-> "there "] }

\* Frames as normalizeSseFrame returns them.
Frames == [event : FrameEventNames, data : FrameData]

\* Of the candidates of the payload the model carries p.delta.
extractTextDeltaFromNativeEvent(eventName, payload, rawText) ==
  LET evt == ToLowerCase(eventName)
      allowDirectCandidates ==
        \/ StartsWith(evt, "message.")
        \/ evt = "message"
        \/ Includes(evt, "output_text")
        \/ EndsWith(evt, ".delta")
        \/ evt = "chat.end"
  IN  IF StartsWith(evt, "reasoning.") THEN ""
      ELSE IF ~payload.isObject THEN ""
      ELSE IF allowDirectCandidates /\ payload.delta # "" THEN payload.delta
      ELSE IF EndsWith(evt, ".delta") /\ rawText # "" THEN rawText
      ELSE ""

\* Variant of emitEvent: chat.end always contributes its delta.
emitEventChatEndCounts(st, eventName, data) ==
  LET deltaText == extractTextDeltaFromNativeEvent(eventName, data, data.dataRaw)
      loweredEvent == ToLowerCase(eventName)
      saw == st.sawMessageDelta \/ (loweredEvent = "message.delta" /\ deltaText # "")
      event == [event |-> eventName, dataRaw |-> data.dataRaw, deltaText |-> deltaText]
  IN  [ assistantText |-> st.assistantText \o deltaText,
        sawMessageDelta |-> saw,
        events |-> Append(st.events, event),
        forwarded |-> Append(st.forwarded, event) ]

\* emitEvent(eventName, dataRaw) on the accumulators st.
emitEvent(st, eventName, data) ==
  LET extracted == extractTextDeltaFromNativeEvent(eventName, data, data.dataRaw)
      loweredEvent == ToLowerCase(eventName)
      saw == st.sawMessageDelta \/ (loweredEvent = "message.delta" /\ extracted # "")
      deltaText == IF loweredEvent = "chat.end" /\ saw THEN "" ELSE extracted
      event == [event |-> eventName, dataRaw |-> data.dataRaw, deltaText |-> deltaText]
  IN  [ assistantText |-> st.assistantText \o deltaText,
        sawMessageDelta |-> saw,
        events |-> Append(st.events, event),
        forwarded |-> Append(st.forwarded, event) ]

\* reader.read() gives the bytes of one frame: consumeFrame(rawFrame).
ConsumeFrame(frame) ==
  /\ streamPc = "reading"
  /\ Len(received) < MaxFrames
  /\ received' = Append(received, frame)
  /\ LET st == [ assistantText |-> assistantText, sawMessageDelta |-> sawMessageDelta,
                 events |-> events, forwarded |-> forwarded ]
         after == IF frame.data.dataRaw = "" THEN st
                  ELSE IF frame.data.dataRaw = "[DONE]"
                    THEN emitEvent(st, "done", frame.data)
                    ELSE emitEvent(st, frame.event, frame.data)
     IN  /\ assistantText' = after.assistantText
         /\ sawMessageDelta' = after.sawMessageDelta
         /\ events' = after.events
         /\ forwarded' = after.forwarded
  /\ UNCHANGED << streamPc, streamText >>
  /\ UNCHANGED notStream

\* reader.read() reports done: the call returns.
StreamDone ==
  /\ streamPc = "reading"
  /\ streamPc' = "returned"
  /\ streamText' = TrimText(assistantText)
  /\ UNCHANGED << received, assistantText, sawMessageDelta, events, forwarded >>
  /\ UNCHANGED notStream

StreamInit ==
  /\ TurnParked
  /\ ClientParked
  /\ ShellParked
  /\ HelpersParked
  /\ PromptParked
  /\ TraceParked
  /\ ViewParked
  /\ StreamNew

StreamNext ==
  \/ \E frame \in Frames : ConsumeFrame(frame)
  \/ StreamDone

\* One call of createNativeStreamingChat from its first read to its return.
StreamSpec == StreamInit /\ [][StreamNext]_vars

----------------------------------------------------------------------------
(* C34 *)

\* The events of the frames fs: a frame without data is no event, and a frame
\* with the data [DONE] is the event done.
ReceivedEvents(fs) ==
  LET HasData(f) == f.data.dataRaw # ""
      kept == SelectSeq(fs, HasData)
  IN  [ i \in 1..Len(kept) |->
          [ event |-> IF kept[i].data.dataRaw = "[DONE]" THEN "done" ELSE kept[i].event,
            data |-> kept[i].data ] ]

DeltaOf(e) == extractTextDeltaFromNativeEvent(e.event, e.data, e.data.dataRaw)

\* What the i-th event contributes to the assistant text.
Contribution(es, i) ==
  IF StartsWith(ToLowerCase(es[i].event), "reasoning.") THEN ""
  ELSE IF /\ ToLowerCase(es[i].event) = "chat.end"
          /\ \E j \in 1..(i - 1) :
               ToLowerCase(es[j].event) = "message.delta" /\ DeltaOf(es[j]) # ""
    THEN ""
    ELSE DeltaOf(es[i])

RECURSIVE Concatenation(_, _)
Concatenation(es, n) ==
  IF n = 0 THEN "" ELSE Concatenation(es, n - 1) \o Contribution(es, n)

\* C34: the text returned is the trimmed concatenation, in arrival order, of
\* the deltas of the received events, where a reasoning event contributes
\* nothing and a chat.end event contributes nothing once a message.delta event
\* with a non-empty delta came before it; and every event is accumulated and
\* handed to the observer once, in arrival order.
C34_StreamedTextIsConcatenation ==
  LET es == ReceivedEvents(received)
  IN  /\ Len(events) = Len(es)
      /\ \A i \in 1..Len(es) :
           /\ events[i].event = es[i].event
           /\ events[i].dataRaw = es[i].data.dataRaw
      /\ forwarded = events
      /\ streamPc = "returned" =>
           streamText = TrimText(Concatenation(es, Len(es)))

\* A stream of a reasoning event, a message.delta and a chat.end with a delta
\* of its own returned the text of the message.delta alone, trimmed.
C34_Witness ==
  /\ streamPc = "returned"
  /\ Len(received) = 3
  /\ received[1].event = "reasoning.delta" /\ received[1].data.delta = " Hi"
  /\ received[2].event = "message.delta" /\ received[2].data.delta = "there "
  /\ received[3].event = "Chat.End" /\ received[3].data.delta = " Hi"
  /\ streamText = "there"

----------------------------------------------------------------------------
(* The session store, src/unnamed/part_002 *)

SessionIds == 1..MaxSessions

NewSession(id) == [id |-> id, messages |-> <<>>]

\* Values globalState may hold under STORE_KEY: the default, a store with an
\* active session, and stores whose activeSessionId names no session.
RawStates ==
  { [sessions |-> <<>>, activeSessionId |-> Null],
    [sessions |-> <<NewSession(1)>>, activeSessionId |-> 1],
    [sessions |-> <<NewSession(1)>>, activeSessionId |-> Null],
    [sessions |-> <<NewSession(1)>>, activeSessionId |-> 2],
    [sessions |-> <<>>, activeSessionId |-> 1] }

\* getSessionById(id) finds a session.
HasSession(st, id) == \E k \in 1..Len(st.sessions) : st.sessions[k].id = id

_loadState(raw) ==
  [ sessions |-> raw.sessions,
    activeSessionId |->
      IF raw.activeSessionId # Null /\ ~HasSession(raw, raw.activeSessionId)
        THEN (IF Len(raw.sessions) > 0 THEN raw.sessions[1].id ELSE Null)
        ELSE raw.activeSessionId ]

\* this.state after createSession() gave the new session the id id.
createSession(st, id) ==
  [ sessions |-> <<NewSession(id)>> \o st.sessions,
    activeSessionId |-> id ]

\* getActiveSession() finds a session.
HasActiveSession(st) ==
  st.activeSessionId # Null /\ HasSession(st, st.activeSessionId)

setActiveSession(st, id) ==
  IF HasSession(st, id) THEN [st EXCEPT !.activeSessionId = id] ELSE st

\* Variant of deleteSession: activeSessionId is left as it is.
deleteSessionKeepsActive(st, id) ==
  LET Other(session) == session.id # id
  IN  [st EXCEPT !.sessions = SelectSeq(st.sessions, Other)]

deleteSession(st, id) ==
  LET Other(session) == session.id # id
      rest == SelectSeq(st.sessions, Other)
  IN  IF Len(rest) = Len(st.sessions)
        THEN [st EXCEPT !.sessions = rest]
        ELSE [ sessions |-> rest,
               activeSessionId |->
                 IF st.activeSessionId = id
                   THEN (IF Len(rest) > 0 THEN rest[1].id ELSE Null)
                   ELSE st.activeSessionId ]

\* this.state after appendMessage(sessionId, role, content) found the session.
appendMessage(st, id, role, content) ==
  LET k == CHOOSE k \in 1..Len(st.sessions) : st.sessions[k].id = id
  IN  [ sessions |-> [st.sessions EXCEPT ![k].messages =
                        Append(@, [role |-> role, content |-> content])],
        activeSessionId |-> id ]

MessageCount(st) ==
  LET RECURSIVE Sum(_)
      Sum(k) == IF k = 0 THEN 0 ELSE Sum(k - 1) + Len(st.sessions[k].messages)
  IN  Sum(Len(st.sessions))

\* store.createSession(), from the createSession message or the command.
CreateSession ==
  /\ nextId <= MaxSessions
  /\ storeState' = createSession(storeState, nextId)
  /\ nextId' = nextId + 1
  /\ UNCHANGED << providerBusy, prompts >>
  /\ UNCHANGED notView

\* store.setActiveSession(id), from the selectSession message.
SetActiveSession(id) ==
  /\ storeState' = setActiveSession(storeState, id)
  /\ UNCHANGED << nextId, providerBusy, prompts >>
  /\ UNCHANGED notView

\* store.deleteSession(id), from the deleteSession message.
DeleteSession(id) ==
  /\ storeState' = deleteSession(storeState, id)
  /\ UNCHANGED << nextId, providerBusy, prompts >>
  /\ UNCHANGED notView

\* store.ensureActiveSession()
EnsureActiveSession ==
  /\ IF HasActiveSession(storeState)
       THEN UNCHANGED << storeState, nextId >>
       ELSE /\ nextId <= MaxSessions
            /\ storeState' = createSession(storeState, nextId)
            /\ nextId' = nextId + 1
  /\ UNCHANGED << providerBusy, prompts >>
  /\ UNCHANGED notView

\* store.appendMessage(sessionId, role, content); it throws, and changes
\* nothing, when the session is not found.
AppendMessage(id, role) ==
  /\ MessageCount(storeState) < MaxMessages
  /\ storeState' = IF HasSession(storeState, id)
                     THEN appendMessage(storeState, id, role, "text")
                     ELSE storeState
  /\ UNCHANGED << nextId, providerBusy, prompts >>
  /\ UNCHANGED notView

StoreInit ==
  /\ TurnParked
  /\ ClientParked
  /\ ShellParked
  /\ HelpersParked
  /\ PromptParked
  /\ TraceParked
  /\ StreamParked
  /\ \E raw \in RawStates :
       /\ storeState = _loadState(raw)
       /\ nextId = Len(raw.sessions) + 1
  /\ providerBusy = FALSE
  /\ prompts = [i \in 1..MaxPrompts |-> NoPrompt]

StoreNext ==
  \/ CreateSession
  \/ EnsureActiveSession
  \/ \E id \in SessionIds : SetActiveSession(id)
  \/ \E id \in SessionIds : DeleteSession(id)
  \/ \E id \in SessionIds, role \in {"user", "assistant"} : AppendMessage(id, role)

\* One SessionStore from its construction, under any sequence of operations.
StoreSpec == StoreInit /\ [][StoreNext]_vars

----------------------------------------------------------------------------
(* C40 *)

\* C40: activeSessionId is null or the id of a session of the store; deleting
\* the active session makes the first remaining session active, or none when
\* no session remains; setActiveSession and deleteSession with an id that
\* names no session leave the state unchanged.
C40_ActiveSessionIsPresent ==
  /\ storeState.activeSessionId = Null \/ HasSession(storeState, storeState.activeSessionId)
  /\ storeState.activeSessionId # Null =>
       LET after == deleteSession(storeState, storeState.activeSessionId)
       IN  /\ ~HasSession(after, storeState.activeSessionId)
           /\ after.activeSessionId =
                (IF Len(after.sessions) > 0 THEN after.sessions[1].id ELSE Null)
  /\ \A id \in SessionIds \cup {MaxSessions + 1} :
       ~HasSession(storeState, id) =>
         /\ setActiveSession(storeState, id) = storeState
         /\ deleteSession(storeState, id) = storeState

\* The active session was deleted while another session remained, and the
\* remaining one became active.
C40_Witness ==
  /\ Len(storeState.sessions) = 1
  /\ storeState.sessions[1].id = 1
  /\ storeState.activeSessionId = 1
  /\ nextId = 3

----------------------------------------------------------------------------
(* _sendPrompt of the session view provider, src/unnamed/part_000 *)

PromptIds == 1..MaxPrompts

SetPrompt(i, position, stored) ==
  prompts' = [prompts EXCEPT ![i].pc = position, ![i].stored = prompts[i].stored \o stored]

\* The sendPrompt message i reaches _sendPrompt, which runs to its first
\* await that waits for the store: the busy test, ensureActiveSession() and,
\* when a session is active, the push of appendMessage(..., "user", prompt).
SendPromptArrives(i) ==
  /\ prompts[i].pc = "none"
  /\ \A j \in 1..(i - 1) : prompts[j].pc # "none"
  /\ IF providerBusy
       THEN /\ prompts' = [prompts EXCEPT ![i].pc = "dropped"]
            /\ UNCHANGED << storeState, nextId >>
       ELSE IF HasActiveSession(storeState)
         THEN /\ storeState' = appendMessage(storeState, storeState.activeSessionId,
                                             "user", "prompt")
              /\ prompts' = [prompts EXCEPT ![i] =
                               [ pc |-> "persistUser",
                                 sessionId |-> storeState.activeSessionId,
                                 failed |-> FALSE,
                                 stored |-> <<"user">> ]]
              /\ UNCHANGED nextId
         ELSE /\ nextId <= MaxSessions
              /\ storeState' = createSession(storeState, nextId)
              /\ nextId' = nextId + 1
              /\ prompts' = [prompts EXCEPT ![i] =
                               [ pc |-> "persistCreate", sessionId |-> nextId,
                                 failed |-> FALSE, stored |-> <<>> ]]
  /\ UNCHANGED providerBusy
  /\ UNCHANGED notView

\* The _persist() of createSession() settles: appendMessage(..., "user",
\* prompt) runs to its _persist(), or throws out of _sendPrompt.
SessionPersisted(i) ==
  /\ prompts[i].pc = "persistCreate"
  /\ IF HasSession(storeState, prompts[i].sessionId)
       THEN /\ storeState' = appendMessage(storeState, prompts[i].sessionId, "user", "prompt")
            /\ SetPrompt(i, "persistUser", <<"user">>)
       ELSE /\ prompts' = [prompts EXCEPT ![i].pc = "rejected", ![i].failed = TRUE]
            /\ UNCHANGED storeState
  /\ UNCHANGED << nextId, providerBusy >>
  /\ UNCHANGED notView

\* The user message is persisted: this.busy = true; await this._postState().
UserMessagePersisted(i) ==
  /\ prompts[i].pc = "persistUser"
  /\ providerBusy' = TRUE
  /\ SetPrompt(i, "postState", <<>>)
  /\ UNCHANGED << storeState, nextId >>
  /\ UNCHANGED notView

\* The catch clause up to its await, and the finally clause when
\* appendMessage throws in it.
\* Sets storeState, providerBusy and prompts.
Catch(i) ==
  IF HasSession(storeState, prompts[i].sessionId)
    THEN /\ storeState' = appendMessage(storeState, prompts[i].sessionId,
                                        "assistant", "Error: message")
         /\ SetPrompt(i, "persistError", <<"assistant">>)
         /\ UNCHANGED providerBusy
    ELSE /\ providerBusy' = FALSE
         /\ prompts' = [prompts EXCEPT ![i].pc = "finalPost", ![i].failed = TRUE]
         /\ UNCHANGED storeState

\* The state is posted: the try block runs to the call of
\* runChatWithOptionalMcp, or to the catch clause when the configuration or
\* the session is missing.
TryBlock(i, configured) ==
  /\ prompts[i].pc = "postState"
  /\ IF configured /\ HasSession(storeState, prompts[i].sessionId)
       THEN /\ SetPrompt(i, "run", <<>>)
            /\ UNCHANGED << storeState, providerBusy >>
       ELSE Catch(i)
  /\ UNCHANGED nextId
  /\ UNCHANGED notView

\* runChatWithOptionalMcp returns: the answer is appended.
RunReturns(i) ==
  /\ prompts[i].pc = "run"
  /\ IF HasSession(storeState, prompts[i].sessionId)
       THEN /\ storeState' = appendMessage(storeState, prompts[i].sessionId,
                                           "assistant", "answer")
            /\ SetPrompt(i, "persistAnswer", <<"assistant">>)
            /\ UNCHANGED providerBusy
       ELSE Catch(i)
  /\ UNCHANGED nextId
  /\ UNCHANGED notView

\* runChatWithOptionalMcp throws.
RunThrows(i) ==
  /\ prompts[i].pc = "run"
  /\ Catch(i)
  /\ UNCHANGED nextId
  /\ UNCHANGED notView

\* The assistant message, answer or error, is persisted: the finally clause.
AssistantMessagePersisted(i) ==
  /\ prompts[i].pc \in {"persistAnswer", "persistError"}
  /\ providerBusy' = FALSE
  /\ SetPrompt(i, "finalPost", <<>>)
  /\ UNCHANGED << storeState, nextId >>
  /\ UNCHANGED notView

\* The _postState() of the finally clause settles: _sendPrompt returns, or
\* throws the error of its catch clause.
SendPromptEnds(i) ==
  /\ prompts[i].pc = "finalPost"
  /\ SetPrompt(i, IF prompts[i].failed THEN "rejected" ELSE "done", <<>>)
  /\ UNCHANGED << storeState, nextId, providerBusy >>
  /\ UNCHANGED notView

ViewInit == StoreInit

ViewNext ==
  \/ CreateSession
  \/ \E id \in SessionIds : SetActiveSession(id)
  \/ \E id \in SessionIds : DeleteSession(id)
  \/ \E i \in PromptIds : SendPromptArrives(i)
  \/ \E i \in PromptIds : SessionPersisted(i)
  \/ \E i \in PromptIds : UserMessagePersisted(i)
  \/ \E i \in PromptIds, configured \in BOOLEAN : TryBlock(i, configured)
  \/ \E i \in PromptIds : RunReturns(i)
  \/ \E i \in PromptIds : RunThrows(i)
  \/ \E i \in PromptIds : AssistantMessagePersisted(i)
  \/ \E i \in PromptIds : SendPromptEnds(i)

\* The session view: the messages of the webview handled as they arrive, each
\* up to its next await.
ViewSpec == ViewInit /\ [][ViewNext]_vars

----------------------------------------------------------------------------
(* C38, C39 *)

\* A _sendPrompt call that has started and not finished.
InFlight(i) == prompts[i].pc \notin {"none", "dropped", "done", "rejected"}

\* C38: a sendPrompt message that arrives while another _sendPrompt call has
\* not finished is dropped: it appends no user message and starts no run.
C38_SecondPromptDropped ==
  [][ \A i \in PromptIds :
        (/\ prompts[i].pc = "none"
         /\ prompts'[i].pc # "none"
         /\ \E j \in PromptIds : j # i /\ InFlight(j))
        => (prompts'[i].pc = "dropped" /\ storeState' = storeState)
    ]_vars

\* A step of the _sendPrompt call i after its arrival.
PromptStep(i) ==
  \/ SessionPersisted(i)
  \/ UserMessagePersisted(i)
  \/ \E configured \in BOOLEAN : TryBlock(i, configured)
  \/ RunReturns(i)
  \/ RunThrows(i)
  \/ AssistantMessagePersisted(i)
  \/ SendPromptEnds(i)

\* The session view when every awaited store update, state post and
\* orchestration run settles.
ViewLiveSpec == ViewSpec /\ \A i \in PromptIds : WF_vars(PromptStep(i))

\* The _sendPrompt call i that set the busy flag reaches its finally clause,
\* which clears it.
BusyCleared ==
  \A i \in PromptIds : (prompts[i].pc = "postState") ~> (prompts[i].pc = "finalPost")

\* A _sendPrompt call that has ended and stored a user message stored exactly
\* one assistant message after it.
PromptAnswered ==
  \A i \in PromptIds :
    (prompts[i].pc \in {"done", "rejected"} /\ prompts[i].stored # <<>>)
      => prompts[i].stored = <<"user", "assistant">>

\* C39: every _sendPrompt call that set the busy flag eventually clears it,
\* on success and on every failure path, and every user message it stored is
\* followed by exactly one assistant message it stored.
C39_BusyClearedAndPromptAnswered == BusyCleared /\ []PromptAnswered

====
